---------------------------- MODULE Spec2Model ----------------------------
(***************************************************************************)
(* Model of orix.vector.miller (Miller: construction, the 4-index setters, *)
(* symmetrise, unique, angle_with, round; the index conversions and        *)
(* _round_indices) and of orix.gridding.grid_generators.                   *)
(*                                                                         *)
(* Numbers.  Index values (uvw, UVTW, hkl, hkil) are exact integers that   *)
(* count units of 1e-4, the absolute tolerance of the closure checks, so   *)
(* the index 1.0 is the integer One.  Cartesian data is held in units of   *)
(* 1e-4 / LatScale so that division by a lattice parameter stays exact.    *)
(* On this grid the rounding done by Vector3d.unique changes no value.     *)
(* Python's None is "None" for a string, NoBatch for an array argument,    *)
(* NoPhase for a phase and NoObj for an object; array indices are 0-based  *)
(* as in the source, sequences are 1-based as in TLA+.                     *)
(***************************************************************************)
EXTENDS Integers, Sequences, FiniteSets, TLC

VARIABLES self, call, ret

vars == <<self, call, ret>>

None == "None"

\* An array argument that is not passed (None).
NoBatch == <<>>

\* phase=None.
NoPhase == [point_group |-> None, lattice |-> <<>>]

\* ------------------------------------------------------------------ bounds
\* Largest number of vectors in one batch.
MaxVectors == 2
\* Largest absolute value of an integer index given to a conversion.
MaxIndex == 3

\* ------------------------------------------------------- program constants
\* atol=1e-4 of np.allclose in _check_hkil / _check_UVTW, in units of 1e-4.
Atol == 1
\* The index 1.0 in units of atol (1.0 / 1e-4).
One == 10000

\* ----------------------------------------------------------------- helpers
Abs(x) == IF x < 0 THEN -x ELSE x

Range(s) == {s[j] : j \in 1..Len(s)}

Max(S) == CHOOSE x \in S : \A y \in S : y <= x

RECURSIVE SumSeq(_)
SumSeq(s) == IF s = <<>> THEN 0 ELSE Head(s) + SumSeq(Tail(s))

RECURSIVE SetProd(_)
SetProd(S) == IF S = {} THEN 1 ELSE LET x == CHOOSE y \in S : TRUE IN x * SetProd(S \ {x})

\* All sequences over S of length lo..hi.
SeqsOf(S, lo, hi) == UNION {[1..n -> S] : n \in lo..hi}

\* Lexicographic "less than" on integer sequences of equal length.
RECURSIVE LexLess(_, _)
LexLess(s, t) ==
    IF s = <<>> \/ t = <<>> THEN FALSE
    ELSE IF Head(s) # Head(t) THEN Head(s) < Head(t)
    ELSE LexLess(Tail(s), Tail(t))

\* Insert x into the sorted sequence s, after every element not greater (stable).
RECURSIVE InsertBy(_, _, _)
InsertBy(Less(_, _), x, s) ==
    IF s = <<>> THEN <<x>>
    ELSE IF Less(x, Head(s)) THEN <<x>> \o s
    ELSE <<Head(s)>> \o InsertBy(Less, x, Tail(s))

\* Stable sort of s by Less.
RECURSIVE SortBy(_, _)
SortBy(Less(_, _), s) ==
    IF s = <<>> THEN <<>>
    ELSE InsertBy(Less, s[Len(s)], SortBy(Less, SubSeq(s, 1, Len(s) - 1)))

RECURSIVE Flatten(_)
Flatten(ss) == IF ss = <<>> THEN <<>> ELSE Head(ss) \o Flatten(Tail(ss))

Reverse(s) == [j \in 1..Len(s) |-> s[Len(s) + 1 - j]]

\* ------------------------------------------------------ lattice and phases
\* Orthogonal lattices (all angles 90 degrees), given by <<a, b, c>>: the
\* direct structure matrix is diag(a, b, c), the reciprocal one its inverse.
LatticeParams == {1, 2}

\* Cartesian data is stored multiplied by LatScale (divisible by every a, b, c).
LatScale == SetProd(LatticeParams)

Phases ==
    { [point_group |-> "1",   lattice |-> <<1, 2, 1>>],
      [point_group |-> "-1",  lattice |-> <<2, 2, 1>>],
      [point_group |-> "4",   lattice |-> <<1, 1, 2>>],
      [point_group |-> "432", lattice |-> <<2, 2, 2>>] }

\* The diagonal of the (diagonal) direct structure matrix.
_direct_structure_matrix(lattice) == lattice

\* dsm . uvw
_uvw2xyz(uvw, lattice) ==
    [j \in 1..Len(uvw) |->
        [c \in 1..3 |-> _direct_structure_matrix(lattice)[c] * uvw[j][c] * LatScale]]

\* rsm . hkl, rsm = inv(dsm).T
_hkl2xyz(hkl, lattice) ==
    [j \in 1..Len(hkl) |->
        [c \in 1..3 |-> (hkl[j][c] * LatScale) \div _direct_structure_matrix(lattice)[c]]]

\* xyz . dsm
_xyz2hkl(xyz, lattice) ==
    [j \in 1..Len(xyz) |->
        [c \in 1..3 |-> (xyz[j][c] * _direct_structure_matrix(lattice)[c]) \div LatScale]]

\* xyz . rsm
_xyz2uvw(xyz, lattice) ==
    [j \in 1..Len(xyz) |->
        [c \in 1..3 |-> xyz[j][c] \div (_direct_structure_matrix(lattice)[c] * LatScale)]]

_hkil2hkl(hkil) ==
    [j \in 1..Len(hkil) |-> <<hkil[j][1], hkil[j][2], hkil[j][4]>>]

_hkl2hkil(hkl) ==
    [j \in 1..Len(hkl) |-> <<hkl[j][1], hkl[j][2], -(hkl[j][1] + hkl[j][2]), hkl[j][3]>>]

\* ---- floating point
\* The conversions between uvw and UVTW divide by 3, which no binary
\* floating-point format does exactly.  Their arithmetic is float64 with the
\* significand shortened from 53 to FloatBits bits (an odd number, like 53, so
\* that thirds round in the same direction), round-to-nearest-even.  A number
\* is an integer count of units; every count below 2^FloatBits is
\* representable, so Fl changes none of the index values of a Miller object.
FloatBits == 17

RECURSIVE Pow2(_)
Pow2(n) == IF n = 0 THEN 1 ELSE 2 * Pow2(n - 1)

\* The integer nearest to n / d (d > 0), ties to the even one.
RoundHalfEven(n, d) ==
    LET q == n \div d
        r == n - q * d
    IN  IF 2 * r > d \/ (2 * r = d /\ q % 2 = 1) THEN q + 1 ELSE q

\* The exponent k of the unit in the last place, 2^k, of a / d.
RECURSIVE UlpExp(_, _, _)
UlpExp(a, d, k) == IF a < d * Pow2(FloatBits + k) THEN k ELSE UlpExp(a, d, k + 1)

\* n / d rounded to FloatBits significant bits.
FlDiv(n, d) ==
    LET k == UlpExp(Abs(n), d, 0)
    IN  RoundHalfEven(n, d * Pow2(k)) * Pow2(k)

\* n rounded to FloatBits significant bits (the result of +, - and *).
Fl(n) == FlDiv(n, 1)

IsMtex(convention) == convention = "mtex"

\* Mutant: the MTEX convention does not divide by 3.
_UVTW2uvw_NoMtex(UVTW, convention) ==
    [j \in 1..Len(UVTW) |->
        <<Fl(Fl(2 * UVTW[j][1]) + UVTW[j][2]),
          Fl(UVTW[j][1] + Fl(2 * UVTW[j][2])),
          UVTW[j][4]>>]

_UVTW2uvw(UVTW, convention) ==
    [j \in 1..Len(UVTW) |->
        LET uvw == <<Fl(Fl(2 * UVTW[j][1]) + UVTW[j][2]),
                     Fl(UVTW[j][1] + Fl(2 * UVTW[j][2])),
                     UVTW[j][4]>>
        IN  IF IsMtex(convention) THEN [c \in 1..3 |-> FlDiv(uvw[c], 3)] ELSE uvw]

_uvw2UVTW(uvw, convention) ==
    [j \in 1..Len(uvw) |->
        LET u == uvw[j][1]
            v == uvw[j][2]
            UVTW == <<FlDiv(Fl(Fl(2 * u) - v), 3),
                      FlDiv(Fl(Fl(2 * v) - u), 3),
                      FlDiv(-Fl(u + v), 3),
                      uvw[j][3]>>
        IN  IF IsMtex(convention) THEN [c \in 1..4 |-> Fl(UVTW[c] * 3)] ELSE UVTW]

\* np.allclose(sum of the first three indices, 0, atol=1e-4) over the batch.
ClosureOk(q) == \A j \in 1..Len(q) : Abs(q[j][1] + q[j][2] + q[j][3]) <= Atol

\* Mutant: the sum is taken over h, k and l.
_check_hkil_hkl(hkil) ==
    \A j \in 1..Len(hkil) : Abs(hkil[j][1] + hkil[j][2] + hkil[j][4]) <= Atol

\* TRUE when the check passes, FALSE when it raises ValueError.
_check_hkil(hkil) == ClosureOk(hkil)

_check_UVTW(UVTW) == ClosureOk(UVTW)

\* ------------------------------------------------- point groups (Symmetry)
\* An operation is a signed permutation matrix: (g . v)[r] = g.s[r] * v[g.p[r]].
Op(p, s) == [p |-> p, s |-> s]

Apply(g, v) == [r \in 1..3 |-> g.s[r] * v[g.p[r]]]

Identity == Op(<<1, 2, 3>>, <<1, 1, 1>>)

PermSeq == << <<1, 2, 3>>, <<2, 3, 1>>, <<3, 1, 2>>, <<2, 1, 3>>, <<1, 3, 2>>, <<3, 2, 1>> >>

SignSeq ==
    << <<1, 1, 1>>, <<1, -1, -1>>, <<-1, 1, -1>>, <<-1, -1, 1>>,
       <<-1, -1, -1>>, <<-1, 1, 1>>, <<1, -1, 1>>, <<1, 1, -1>> >>

\* +1 for the even permutations (the first three of PermSeq), -1 for the odd ones.
PermSign(p) == IF p \in {PermSeq[1], PermSeq[2], PermSeq[3]} THEN 1 ELSE -1

Det(g) == PermSign(g.p) * g.s[1] * g.s[2] * g.s[3]

\* The 48 signed permutation matrices, identity first.
AllOps == [n \in 1..(Len(PermSeq) * Len(SignSeq)) |->
              Op(PermSeq[((n - 1) \div Len(SignSeq)) + 1], SignSeq[((n - 1) % Len(SignSeq)) + 1])]

IsProper(g) == Det(g) = 1

\* The operations of a point group, as the ordered batch Symmetry holds.
PointGroup(name) ==
    CASE name = "1"   -> <<Identity>>
      [] name = "-1"  -> <<Identity, Op(<<1, 2, 3>>, <<-1, -1, -1>>)>>
      [] name = "4"   -> <<Identity, Op(<<2, 1, 3>>, <<-1, 1, 1>>),
                           Op(<<1, 2, 3>>, <<-1, -1, 1>>), Op(<<2, 1, 3>>, <<1, -1, 1>>)>>
      [] name = "432" -> SelectSeq(AllOps, IsProper)

\* Symmetry.outer(v): out[g][i] = operation g applied to vector i, shape (M, N).
SymmetryOuter(ops, data) ==
    [g \in 1..Len(ops) |-> [i \in 1..Len(data) |-> Apply(ops[g], data[i])]]

\* --------------------------------------------------------- Vector3d (base)
ZeroVec == <<0, 0, 0>>

IsZero(v) == Abs(v[1]) + Abs(v[2]) + Abs(v[3]) = 0

\* 0-based positions of the first occurrences of the distinct non-zero vectors.
FirstOccurrences(data) ==
    SelectSeq([j \in 1..Len(data) |-> j],
              LAMBDA j : ~IsZero(data[j]) /\ \A k \in 1..(j - 1) : data[k] # data[j])

\* Vector3d.unique: the distinct vectors in order of first occurrence, zero
\* vectors dropped; idx[j] is the position in the flattened batch where
\* unique vector j was found.
Vector3dUnique(data) ==
    LET first == FirstOccurrences(data)
    IN  [v   |-> [j \in 1..Len(first) |-> data[first[j]]],
         idx |-> [j \in 1..Len(first) |-> first[j] - 1]]

\* Vector3d.flatten of an (M, N) batch: the orbit of vector 0 first, then the
\* orbit of vector 1, ... (each in the order of the operations).
Vector3dFlatten(v2) ==
    IF v2 = <<>> THEN <<>>
    ELSE Flatten([i \in 1..Len(v2[1]) |-> [g \in 1..Len(v2) |-> v2[g][i]]])

\* reshape(n, m) of a flat batch of n * m vectors.
Reshape(flat, n, m) == [i \in 1..n |-> [c \in 1..m |-> flat[(i - 1) * m + c]]]

\* ------------------------------------------------------------------ Miller
Formats == {"xyz", "uvw", "UVTW", "hkl", "hkil"}

MillerObj(data, phase, coordinate_format) ==
    [data |-> data, phase |-> phase, coordinate_format |-> coordinate_format]

\* No object (the call raised, or nothing was constructed yet).
NoObj == MillerObj(<<>>, NoPhase, None)

\* The outcome of a call: the exception raised (None when it returns) and the
\* object it leaves (NoObj when it raised).
Raise(exc) == [raised |-> exc, obj |-> NoObj]

Return(obj) == [raised |-> None, obj |-> obj]

\* Cartesian input given in index units, as stored.
XyzData(xyz) == [j \in 1..Len(xyz) |-> [c \in 1..3 |-> xyz[j][c] * LatScale]]

\* Miller.__init__; a is the record of its arguments.
\* Mutant: a phase is required even when xyz is given.
MillerInit_PhaseRequired(a) ==
    IF a.phase = NoPhase THEN Raise("ValueError")
    ELSE LET fmt(in_coords) ==
                 IF a.coordinate_format = None THEN in_coords ELSE a.coordinate_format
             Finish(xyz, in_coords) ==
                 IF fmt(in_coords) \notin Formats THEN Raise("ValueError")
                 ELSE Return(MillerObj(xyz, a.phase, fmt(in_coords)))
         IN  IF a.xyz # NoBatch THEN Finish(XyzData(a.xyz), "xyz")
             ELSE IF a.uvw # NoBatch THEN Finish(_uvw2xyz(a.uvw, a.phase.lattice), "uvw")
             ELSE IF a.hkl # NoBatch THEN Finish(_hkl2xyz(a.hkl, a.phase.lattice), "hkl")
             ELSE Raise("ValueError")

MillerInit(a) ==
    IF a.xyz = NoBatch /\ a.phase = NoPhase THEN Raise("ValueError")
    ELSE LET fmt(in_coords) ==
                 IF a.coordinate_format = None THEN in_coords ELSE a.coordinate_format
             Finish(xyz, in_coords) ==
                 IF fmt(in_coords) \notin Formats THEN Raise("ValueError")
                 ELSE Return(MillerObj(xyz, a.phase, fmt(in_coords)))
         IN  IF a.xyz # NoBatch THEN Finish(XyzData(a.xyz), "xyz")
             ELSE IF a.uvw # NoBatch THEN Finish(_uvw2xyz(a.uvw, a.phase.lattice), "uvw")
             ELSE IF a.UVTW # NoBatch THEN
                 IF ~_check_UVTW(a.UVTW) THEN Raise("ValueError")
                 ELSE Finish(_uvw2xyz(_UVTW2uvw(a.UVTW, None), a.phase.lattice), "UVTW")
             ELSE IF a.hkl # NoBatch THEN Finish(_hkl2xyz(a.hkl, a.phase.lattice), "hkl")
             ELSE IF a.hkil # NoBatch THEN
                 IF ~_check_hkil(a.hkil) THEN Raise("ValueError")
                 ELSE Finish(_hkl2xyz(_hkil2hkl(a.hkil), a.phase.lattice), "hkil")
             ELSE Raise("ValueError")

\* Mutant: assigning hkl makes the vector an hkl vector.
SetHkl_Retag(m, value) ==
    IF m.phase = NoPhase THEN Raise("AttributeError")
    ELSE Return([m EXCEPT !.data = _hkl2xyz(value, m.phase.lattice),
                          !.coordinate_format = "hkl"])

\* The setters: the outcome of assigning value to the property of Miller m.
\* Reading m.phase.structure of a Miller without phase is an AttributeError.
SetHkl(m, value) ==
    IF m.phase = NoPhase THEN Raise("AttributeError")
    ELSE Return([m EXCEPT !.data = _hkl2xyz(value, m.phase.lattice)])

SetHkil(m, value) == SetHkl(m, _hkil2hkl(value))

SetUvw(m, value) ==
    IF m.phase = NoPhase THEN Raise("AttributeError")
    ELSE Return([m EXCEPT !.data = _uvw2xyz(value, m.phase.lattice)])

SetUVTW(m, value) == SetUvw(m, _UVTW2uvw(value, None))

\* --------------------------------------------------------------- symmetrise
\* What a method returns: the exception raised (None when it returns), the
\* Miller object returned, the multiplicity and index arrays (<<>> when not
\* returned) and whether operations.outer() was evaluated.
Result(raised, obj, multiplicity, idx, outer) ==
    [raised |-> raised, obj |-> obj, multiplicity |-> multiplicity, idx |-> idx,
     outer |-> outer]

\* Mutant: the orbit of vector i taken as it is, without unique().
OrbitNotReduced(v2, i) == [g \in 1..Len(v2) |-> v2[g][i]]

\* vi = v2[:, i].unique(): the distinct members of the orbit of vector i.
OrbitUnique(v2, i) == Vector3dUnique([g \in 1..Len(v2) |-> v2[g][i]]).v

\* Mutant: the multiplicity counts the whole orbit (operations.size).
SymMultiplicityOrder(v2, n_v) == [i \in 1..n_v |-> Len(v2)]

\* multiplicity[i] = l = vi.size
SymMultiplicity(v2, n_v) == [i \in 1..n_v |-> Len(OrbitUnique(v2, i))]

\* v3 = self.zero((n_v, M)); v3[i, :l] = vi
SymV3(v2, n_v, M) ==
    [i \in 1..n_v |->
        [c \in 1..M |-> IF c <= Len(OrbitUnique(v2, i)) THEN OrbitUnique(v2, i)[c]
                        ELSE ZeroVec]]

\* Mutant: the slice is filled with i + 1 instead of i.
SymIdxFillOffByOne(ls, size) ==
    LET filled == Flatten([i \in 1..Len(ls) |-> [k \in 1..ls[i] |-> i]])
    IN  filled \o [k \in 1..(size - Len(filled)) |-> -1]

\* idx = -1 everywhere, then idx[l_accum : l_accum + l] = i with l_accum += l.
SymIdxFill(ls, size) ==
    LET filled == Flatten([i \in 1..Len(ls) |-> [k \in 1..ls[i] |-> i - 1]])
    IN  filled \o [k \in 1..(size - Len(filled)) |-> -1]

\* Mutant: the padding and the zero vectors of v3 are kept.
SymKeepZero(v3) == Flatten(v3)

\* non_zero = np.sum(np.abs(v3.data), axis=-1) != 0; v3[non_zero], row-major.
SymNonZero(v3) == SelectSeq(Flatten(v3), LAMBDA v : ~IsZero(v))

\* Mutant: the orbits are reduced whether or not unique is asked for.
SymmetriseBodyAlwaysUnique(m, unique, return_multiplicity, return_index) ==
    IF m.phase = NoPhase THEN Result("AttributeError", NoObj, <<>>, <<>>, FALSE)
    ELSE
        LET operations   == PointGroup(m.phase.point_group)
            v2           == SymmetryOuter(operations, m.data)
            n_v          == Len(m.data)
            v3           == SymV3(v2, n_v, Len(operations))
            multiplicity == SymMultiplicity(v2, n_v)
            kept         == SymNonZero(v3)
            idx          == SubSeq(SymIdxFill(multiplicity, n_v * Len(operations)),
                                   1, Len(kept))
        IN  Result(None, MillerObj(kept, m.phase, m.coordinate_format),
                   IF return_multiplicity THEN multiplicity ELSE <<>>,
                   IF return_index THEN idx ELSE <<>>, TRUE)

\* Miller.symmetrise after its argument checks.
SymmetriseBody(m, unique, return_multiplicity, return_index) ==
    IF m.phase = NoPhase THEN Result("AttributeError", NoObj, <<>>, <<>>, FALSE)
    ELSE
        LET operations   == PointGroup(m.phase.point_group)
            v2           == SymmetryOuter(operations, m.data)
            n_v          == Len(m.data)
            v3           == SymV3(v2, n_v, Len(operations))
            multiplicity == SymMultiplicity(v2, n_v)
            kept         == SymNonZero(v3)
            idx          == SubSeq(SymIdxFill(multiplicity, n_v * Len(operations)),
                                   1, Len(kept))
            out          == IF unique THEN kept ELSE Vector3dFlatten(v2)
        IN  Result(None, MillerObj(out, m.phase, m.coordinate_format),
                   IF return_multiplicity THEN multiplicity ELSE <<>>,
                   IF return_index THEN idx ELSE <<>>, TRUE)

\* Mutant: the test of return_index is missing.
SymmetriseIndexUnchecked(m, unique, return_multiplicity, return_index) ==
    IF return_multiplicity /\ ~unique THEN Result("ValueError", NoObj, <<>>, <<>>, FALSE)
    ELSE SymmetriseBody(m, unique, return_multiplicity, return_index)

\* Miller.symmetrise(unique, return_multiplicity, return_index).
Symmetrise(m, unique, return_multiplicity, return_index) ==
    IF return_multiplicity /\ ~unique THEN Result("ValueError", NoObj, <<>>, <<>>, FALSE)
    ELSE IF return_index /\ ~unique THEN Result("ValueError", NoObj, <<>>, <<>>, FALSE)
    ELSE SymmetriseBody(m, unique, return_multiplicity, return_index)

\* Miller.multiplicity
Multiplicity(m) == Symmetrise(m, TRUE, TRUE, FALSE).multiplicity

\* ------------------------------------------------------------------- unique
\* The order np.lexsort(a.T) sorts the rows of a by: the last column first,
\* then the second, then the first.
LexsortLess(u, w) == LexLess(<<u[3], u[2], u[1]>>, <<w[3], w[2], w[1]>>)

\* Mutant: the orbits are compared as they come, not sorted.
DataNotSorted(data) == data

\* data_sorted[i] = a[np.lexsort(a.T)] for every row a of data.
DataSorted(data) == [i \in 1..Len(data) |-> SortBy(LexsortLess, data[i])]

RowLess(r, t) == LexLess(Flatten(r), Flatten(t))

\* Mutant: the index of the last occurrence of every distinct row.
UniqueRowsIndexLast(rows) ==
    LET last == SelectSeq([j \in 1..Len(rows) |-> j],
                          LAMBDA j : \A k \in (j + 1)..Len(rows) : rows[k] # rows[j])
        ByRow(j, k) == RowLess(rows[j], rows[k])
        sorted == SortBy(ByRow, last)
    IN  [j \in 1..Len(sorted) |-> sorted[j] - 1]

\* np.unique(rows, return_index=True, axis=0)[1]: for every distinct row the
\* 0-based index of its first occurrence, in ascending order of the rows.
UniqueRowsIndex(rows) ==
    LET first == SelectSeq([j \in 1..Len(rows) |-> j],
                           LAMBDA j : \A k \in 1..(j - 1) : rows[k] # rows[j])
        ByRow(j, k) == RowLess(rows[j], rows[k])
        sorted == SortBy(ByRow, first)
    IN  [j \in 1..Len(sorted) |-> sorted[j] - 1]

\* v[idx] (idx 0-based)
Take(v, idx) == [j \in 1..Len(idx) |-> v[idx[j] + 1]]

\* The symmetry branch of Miller.unique: the index array np.unique gives for
\* the sorted orbits of the batch v.
UniqueSymIndex(v, operations) ==
    LET n_v == Len(v)
        v2  == Reshape(Vector3dFlatten(SymmetryOuter(operations, v)), n_v, Len(operations))
    IN  UniqueRowsIndex(DataSorted(v2))

\* Mutant: the index is applied to the batch of self, not to the reduced one.
UniqueSymBatchSelf(m, v) == m.data

\* The batch v that idx[::-1] selects from: the vectors super().unique() gave.
UniqueSymBatch(m, v) == v

\* v = v[idx[::-1]]
UniqueSymSelect(v, idx) == Take(v, Reverse(idx))

\* Miller.unique(use_symmetry, return_index).
MillerUnique(m, use_symmetry, return_index) ==
    LET out == Vector3dUnique(m.data)
    IN  IF ~use_symmetry THEN
            Result(None, MillerObj(out.v, m.phase, m.coordinate_format), <<>>,
                   IF return_index THEN out.idx ELSE <<>>, FALSE)
        ELSE IF m.phase = NoPhase THEN Result("AttributeError", NoObj, <<>>, <<>>, FALSE)
        ELSE
            LET idx == UniqueSymIndex(out.v, PointGroup(m.phase.point_group))
                v   == UniqueSymSelect(UniqueSymBatch(m, out.v), idx)
            IN  Result(None, MillerObj(v, m.phase, m.coordinate_format),
                       <<>>, IF return_index THEN idx ELSE <<>>, TRUE)

\* ------------------------------------------------------------------ inputs
\* Index triplets of the batches that are symmetrised and reduced.
Vec3 ==
    { <<0, 0, 0>>, <<One, 0, 0>>, <<0, One, 0>>, <<0, 0, One>>,
      <<One, One, 0>>, <<One, One, One>> }

\* Index triplets passed to the constructor and the setters.
ArgVec3 == { <<One, 0, 0>>, <<0, One, One>> }

\* Index quartets (UVTW, hkil): closed, closed, inside the tolerance, just
\* outside it.
Vec4 ==
    { <<One, 0, -One, 0>>, <<0, One, -One, One>>, <<One, 0, Atol - One, 0>>,
      <<One, 0, Atol + 1 - One, 0>> }

Batches3 == SeqsOf(Vec3, 1, MaxVectors)

ArgBatches3 == SeqsOf(ArgVec3, 1, MaxVectors)

Batches4 == SeqsOf(Vec4, 1, MaxVectors)

ArgNames == {"xyz", "uvw", "UVTW", "hkl", "hkil"}

FourIndex == {"UVTW", "hkil"}

\* The argument __init__ reads: the first one passed, in the order of its tests.
FirstGiven(given) ==
    IF "xyz" \in given THEN "xyz"
    ELSE IF "uvw" \in given THEN "uvw"
    ELSE IF "UVTW" \in given THEN "UVTW"
    ELSE IF "hkl" \in given THEN "hkl"
    ELSE IF "hkil" \in given THEN "hkil"
    ELSE None

\* The arguments of a constructor call: value for the argument __init__ reads,
\* some array for the other arguments passed, None for the rest.
InitArgs(given, value, phase, coordinate_format) ==
    LET arg(name) ==
            IF name \notin given THEN NoBatch
            ELSE IF name = FirstGiven(given) THEN value
            ELSE IF name \in FourIndex THEN << <<One, 0, -One, 0>> >>
            ELSE << <<One, 0, 0>> >>
    IN  [xyz |-> arg("xyz"), uvw |-> arg("uvw"), UVTW |-> arg("UVTW"),
         hkl |-> arg("hkl"), hkil |-> arg("hkil"),
         phase |-> phase, coordinate_format |-> coordinate_format]

\* ------------------------------------------- construction and assignment
Init ==
    /\ self = NoObj
    /\ call = [op |-> "none"]
    /\ ret = Result(None, NoObj, <<>>, <<>>, FALSE)

\* m = Miller(...) with at most two of the coordinate arguments passed; on an
\* exception no object is made.
Construct ==
    /\ call.op = "none"
    /\ \E given \in {g \in SUBSET ArgNames : Cardinality(g) <= 2},
          phase \in Phases \cup {NoPhase},
          coordinate_format \in {None, "hkl", "abc"} :
        \E value \in (IF given = {} THEN {NoBatch}
                      ELSE IF FirstGiven(given) \in FourIndex THEN Batches4
                      ELSE ArgBatches3) :
            LET a == InitArgs(given, value, phase, coordinate_format)
                r == MillerInit(a)
            IN  /\ call' = [op |-> "init", given |-> given, args |-> a]
                /\ ret' = Result(r.raised, r.obj, <<>>, <<>>, FALSE)
                /\ self' = r.obj

\* m.hkl = value, m.hkil = value, m.uvw = value, m.UVTW = value on the object
\* just constructed, value having the shape of m; old is m before the call.
Assign ==
    /\ self # NoObj
    /\ call.op = "init"
    /\ \E name \in {"hkl", "hkil", "uvw", "UVTW"} :
        \E value \in {b \in (IF name \in FourIndex THEN Batches4 ELSE ArgBatches3) :
                         Len(b) = Len(self.data)} :
            LET r == CASE name = "hkl"  -> SetHkl(self, value)
                       [] name = "hkil" -> SetHkil(self, value)
                       [] name = "uvw"  -> SetUvw(self, value)
                       [] name = "UVTW" -> SetUVTW(self, value)
            IN  /\ call' = [op |-> "set", name |-> name, value |-> value, old |-> self]
                /\ ret' = Result(r.raised, r.obj, <<>>, <<>>, FALSE)
                /\ self' = IF r.raised = None THEN r.obj ELSE self

Next == Construct \/ Assign

Spec == Init /\ [][Next]_vars

\* ------------------------------------------------------ shared phases
\* Two Miller objects and the phase records they reference.  Here self is
\* the heap: phases are the records, and the phase of a Miller object is the
\* position of its record (NoRef for phase=None).
NoRef == 0

PhaseRecords ==
    << [point_group |-> "4", lattice |-> <<1, 1, 2>>],
       [point_group |-> "432", lattice |-> <<2, 2, 2>>] >>

Deref(phases, ref) == IF ref = NoRef THEN NoPhase ELSE phases[ref]

\* The object a heap entry stands for.
Object(heap, i) ==
    MillerObj(heap.millers[i].data, Deref(heap.phases, heap.millers[i].phase),
              heap.millers[i].coordinate_format)

\* One-vector batches.
Singles(name) ==
    {b \in (IF name \in FourIndex THEN Batches4 ELSE ArgBatches3) : Len(b) = 1}

\* The heap entries Miller(name=value, phase=phases[ref]) makes.
SharedObjects ==
    UNION { { [data |-> MillerInit(InitArgs({name}, value, Deref(PhaseRecords, ref), None)).obj.data,
               phase |-> ref,
               coordinate_format |-> name] :
                value \in {b \in Singles(name) :
                    MillerInit(InitArgs({name}, b, Deref(PhaseRecords, ref), None)).raised = None} } :
            name \in ArgNames, ref \in {NoRef} \cup DOMAIN PhaseRecords }

InitShared ==
    /\ \E m1 \in SharedObjects, m2 \in SharedObjects :
           self = [phases |-> PhaseRecords, millers |-> <<m1, m2>>]
    /\ call = [op |-> "none"]
    /\ ret = Result(None, NoObj, <<>>, <<>>, FALSE)

\* millers[target].name = value.  The setter works on the object and on the
\* phase record it references; what it leaves of them is written back.
AssignShared ==
    /\ call.op = "none"
    /\ \E target \in 1..2, name \in {"hkl", "hkil", "uvw", "UVTW"} :
        \E value \in Singles(name) :
            LET m   == Object(self, target)
                ref == self.millers[target].phase
                r   == CASE name = "hkl"  -> SetHkl(m, value)
                         [] name = "hkil" -> SetHkil(m, value)
                         [] name = "uvw"  -> SetUvw(m, value)
                         [] name = "UVTW" -> SetUVTW(m, value)
            IN  /\ call' = [op |-> "set", target |-> target, name |-> name,
                            value |-> value, old |-> self]
                /\ ret' = Result(r.raised, r.obj, <<>>, <<>>, FALSE)
                /\ self' = IF r.raised # None THEN self
                           ELSE [phases |-> [p \in DOMAIN self.phases |->
                                                IF p = ref THEN r.obj.phase
                                                ELSE self.phases[p]],
                                 millers |-> [self.millers EXCEPT ![target] =
                                     [data |-> r.obj.data, phase |-> ref,
                                      coordinate_format |-> r.obj.coordinate_format]]]

NextShared == AssignShared

SpecShared == InitShared /\ [][NextShared]_vars

\* ------------------------------------------------- symmetrise and unique
\* The Miller objects the constructor returns for one coordinate argument.
QueryObjects ==
    UNION { { MillerInit(InitArgs({name}, value, phase, None)).obj :
                value \in {b \in (IF name \in FourIndex THEN Batches4 ELSE Batches3) :
                              MillerInit(InitArgs({name}, b, phase, None)).raised = None} } :
            name \in ArgNames, phase \in Phases \cup {NoPhase} }

InitQuery ==
    /\ self \in QueryObjects
    /\ call = [op |-> "none"]
    /\ ret = Result(None, NoObj, <<>>, <<>>, FALSE)

\* m.symmetrise(unique, return_multiplicity, return_index); m is not changed.
CallSymmetrise ==
    /\ call.op = "none"
    /\ \E unique \in BOOLEAN, return_multiplicity \in BOOLEAN, return_index \in BOOLEAN :
        /\ call' = [op |-> "symmetrise", unique |-> unique,
                    return_multiplicity |-> return_multiplicity,
                    return_index |-> return_index]
        /\ ret' = Symmetrise(self, unique, return_multiplicity, return_index)
        /\ UNCHANGED self

\* m.unique(use_symmetry, return_index); m is not changed.
CallUnique ==
    /\ call.op = "none"
    /\ \E use_symmetry \in BOOLEAN, return_index \in BOOLEAN :
        /\ call' = [op |-> "unique", use_symmetry |-> use_symmetry,
                    return_index |-> return_index]
        /\ ret' = MillerUnique(self, use_symmetry, return_index)
        /\ UNCHANGED self

NextQuery == CallSymmetrise \/ CallUnique

SpecQuery == InitQuery /\ [][NextQuery]_vars

\* ------------------------------------------------- indexing, unit and mean
\* The integer nearest to the square root of n, by bisection of [lo, hi].
RECURSIVE ISqrtIn(_, _, _)
ISqrtIn(n, lo, hi) ==
    IF hi - lo <= 1 THEN (IF n - lo * lo <= hi * hi - n THEN lo ELSE hi)
    ELSE LET mid == (lo + hi) \div 2
         IN  IF mid * mid <= n THEN ISqrtIn(n, mid, hi) ELSE ISqrtIn(n, lo, mid)

ISqrt(n) == ISqrtIn(n, 0, 46340)

\* A component that is not a number (0 / 0).
NotANumber == "nan"

\* Vector3d.unit of one vector: v / |v|, in units of 1e-4; the norm is taken
\* on the components in units of 1e-3.
UnitVector(v) ==
    LET w    == [c \in 1..3 |-> RoundHalfEven(v[c], 10)]
        norm == ISqrt(w[1] * w[1] + w[2] * w[2] + w[3] * w[3])
    IN  IF norm = 0 THEN [c \in 1..3 |-> NotANumber]
        ELSE [c \in 1..3 |-> RoundHalfEven(w[c] * One, norm)]

\* Vector3d.mean of a batch: one vector, the mean of each component.
MeanVector(data) ==
    [c \in 1..3 |-> RoundHalfEven(SumSeq([j \in 1..Len(data) |-> data[j][c]]), Len(data))]

\* Miller.__getitem__(key), key a list of 0-based positions.
MillerGetItem(m, key) ==
    IF \E j \in 1..Len(key) : key[j] >= Len(m.data)
    THEN Result("IndexError", NoObj, <<>>, <<>>, FALSE)
    ELSE Result(None, MillerObj(Take(m.data, key), m.phase, m.coordinate_format),
                <<>>, <<>>, FALSE)

\* Miller.unit
MillerUnit(m) ==
    Result(None,
           MillerObj([j \in 1..Len(m.data) |-> UnitVector(m.data[j])],
                     m.phase, m.coordinate_format),
           <<>>, <<>>, FALSE)

\* Mutant: the mean is returned as a plain Cartesian vector.
MillerMean_xyz(m, use_symmetry) ==
    Result(None, MillerObj(<< MeanVector(m.data) >>, m.phase, "xyz"),
           <<>>, <<>>, FALSE)

\* Miller.mean(use_symmetry); with use_symmetry it returns NotImplemented, no
\* vector.
MillerMean(m, use_symmetry) ==
    IF use_symmetry THEN Result(None, NoObj, <<>>, <<>>, FALSE)
    ELSE Result(None, MillerObj(<< MeanVector(m.data) >>, m.phase, m.coordinate_format),
                <<>>, <<>>, FALSE)

\* Index lists: up to two positions, the last of them possibly one past the
\* end.
Keys(m) == SeqsOf(0..Len(m.data), 1, 2)

\* m[key]; m is not changed.
CallGetItem ==
    /\ call.op = "none"
    /\ \E key \in Keys(self) :
        /\ call' = [op |-> "getitem", key |-> key]
        /\ ret' = MillerGetItem(self, key)
        /\ UNCHANGED self

\* m.unit; m is not changed.
CallUnit ==
    /\ call.op = "none"
    /\ call' = [op |-> "unit"]
    /\ ret' = MillerUnit(self)
    /\ UNCHANGED self

\* m.mean(use_symmetry); m is not changed.
CallMean ==
    /\ call.op = "none"
    /\ \E use_symmetry \in BOOLEAN :
        /\ call' = [op |-> "mean", use_symmetry |-> use_symmetry]
        /\ ret' = MillerMean(self, use_symmetry)
        /\ UNCHANGED self

NextDerive == CallSymmetrise \/ CallUnique \/ CallGetItem \/ CallUnit \/ CallMean

SpecDerive == InitQuery /\ [][NextDerive]_vars

\* -------------------------------------------------------------- angle_with
RECURSIVE Gcd(_, _)
Gcd(a, b) == IF b = 0 THEN a ELSE Gcd(b, a % b)

Dot(a, b) == a[1] * b[1] + a[2] * b[2] + a[3] * b[3]

\* The shortest integer vector along a non-zero v: the quotients below divide
\* the norms out, so their value is that of the code.
Direction(v) ==
    LET g == Gcd(Gcd(Abs(v[1]), Abs(v[2])), Abs(v[3]))
    IN  [c \in 1..3 |-> v[c] \div g]

\* An angle t in [0, pi] is held as its cosine, and the cosine as the
\* fraction num / den = sign(cos t) * cos(t)^2 in lowest terms; nan is the
\* result of 0 / 0.  np.round(cosines, 9) changes none of these fractions'
\* order.  Angle(a, b) = arccos(a . b / (|a| |b|)).
NaN == [nan |-> TRUE, num |-> 0, den |-> 1]

Angle(a, b) ==
    IF IsZero(a) \/ IsZero(b) THEN NaN
    ELSE LET da  == Direction(a)
             db  == Direction(b)
             d   == Dot(da, db)
             num == (IF d < 0 THEN -1 ELSE 1) * d * d
             den == Dot(da, da) * Dot(db, db)
             g   == Gcd(Abs(num), den)
         IN  [nan |-> FALSE, num |-> num \div g, den |-> den \div g]

\* x is a smaller angle than y (a larger cosine).
AngleLess(x, y) == ~x.nan /\ ~y.nan /\ x.num * y.den > y.num * x.den

\* np.min(np.arccos(cosines), axis=-1): nan if any entry is.
AngleMin(angles) ==
    IF \E k \in 1..Len(angles) : angles[k].nan THEN NaN
    ELSE angles[CHOOSE k \in 1..Len(angles) :
                    \A n \in 1..Len(angles) : ~AngleLess(angles[n], angles[k])]

AngleResult(raised, angles) == [raised |-> raised, angles |-> angles]

\* Vector3d.angle_with: element by element, a batch of one vector broadcast.
Vector3dAngleWith(data, other) ==
    LET n == IF Len(data) = 1 THEN Len(other) ELSE Len(data)
        at(s, i) == IF Len(s) = 1 THEN s[1] ELSE s[i]
    IN  IF Len(data) # Len(other) /\ Len(data) # 1 /\ Len(other) # 1
        THEN AngleResult("ValueError", <<>>)
        ELSE AngleResult(None, [i \in 1..n |-> Angle(at(data, i), at(other, i))])

\* Miller.angle_with(other, use_symmetry)
AngleWith(m, other, use_symmetry) ==
    IF use_symmetry THEN
        LET sym == Symmetrise(other, TRUE, FALSE, FALSE)
            other2 == sym.obj.data
        IN  IF sym.raised # None THEN AngleResult(sym.raised, <<>>)
            ELSE IF other2 = <<>> THEN AngleResult("ValueError", <<>>)
            ELSE AngleResult(None,
                     [i \in 1..Len(m.data) |->
                         AngleMin([k \in 1..Len(other2) |-> Angle(m.data[i], other2[k])])])
    ELSE Vector3dAngleWith(m.data, other.data)

\* -------------------------------------------------------------------- round
\* Largest max_index given to round / _round_indices.
MaxMultiplier == 3

\* 1e7 of error = 1e-7 * np.round(1e7 * ...).
ErrorScale == 10000000

\* _round_indices for one index set idx (a triplet or a quartet, not all
\* zero).  The set is first divided by the greatest common divisor of its
\* entries, which changes neither idx_flat / max_per_set nor multiplier * idx.
RoundIndexSet(idx, max_index) ==
    LET n_idx       == Len(idx)
        g           == Gcd(Gcd(Gcd(Abs(idx[1]), Abs(idx[2])), Abs(idx[3])),
                           IF n_idx = 4 THEN Abs(idx[4]) ELSE 0)
        y           == [c \in 1..n_idx |-> idx[c] \div g]
        idx_flat    == IF n_idx = 4 THEN <<y[1], y[2], y[4]>> ELSE y
        Larger(a, b) == IF a < b THEN b ELSE a
        max_per_set == Larger(Larger(Abs(idx_flat[1]), Abs(idx_flat[2])), Abs(idx_flat[3]))
        \* idx_scaled[k] * max_per_set
        scaled(k)   == [c \in 1..3 |-> idx_flat[c] * k]
        resid(k)    == [c \in 1..3 |->
                           scaled(k)[c] - max_per_set * RoundHalfEven(scaled(k)[c], max_per_set)]
        error(k)    == RoundHalfEven(ErrorScale * Dot(resid(k), resid(k)),
                                     Dot(scaled(k), scaled(k)))
        \* np.argmin: the first of the smallest
        idx_min_error == CHOOSE k \in 1..max_index :
                             /\ \A n \in 1..max_index : error(k) <= error(n)
                             /\ \A n \in 1..(k - 1) : error(n) > error(k)
    IN  [c \in 1..n_idx |-> RoundHalfEven(idx_min_error * y[c], max_per_set)]

\* Mutant: every set is rounded with the multiplier 1 / max_per_set.
_round_indices_first(indices, max_index) ==
    [j \in 1..Len(indices) |-> RoundIndexSet(indices[j], 1)]

\* _round_indices(indices, max_index): integer indices (1 is the index 1).
_round_indices(indices, max_index) ==
    [j \in 1..Len(indices) |-> RoundIndexSet(indices[j], max_index)]

\* Miller.coordinates
Coordinates(m) ==
    CASE m.coordinate_format = "xyz"  -> m.data
      [] m.coordinate_format = "uvw"  -> _xyz2uvw(m.data, m.phase.lattice)
      [] m.coordinate_format = "UVTW" -> _uvw2UVTW(_xyz2uvw(m.data, m.phase.lattice), None)
      [] m.coordinate_format = "hkl"  -> _xyz2hkl(m.data, m.phase.lattice)
      [] m.coordinate_format = "hkil" -> _hkl2hkil(_xyz2hkl(m.data, m.phase.lattice))

\* Miller.round(max_index)
MillerRound(m, max_index) ==
    IF m.coordinate_format = "xyz" THEN Return(m)
    ELSE LET new    == _round_indices(Coordinates(m), max_index)
             coords == [j \in 1..Len(new) |-> [c \in 1..Len(new[j]) |-> new[j][c] * One]]
         IN  MillerInit(InitArgs({m.coordinate_format}, coords, m.phase, None))

\* ------------------------------------------------------------ conversions
\* The pure conversion functions, applied to one integer index triplet.  The
\* index 1.0 is FlOne units, which leaves thirds FloatBits significant bits.
FlOne == Pow2(FloatBits + 1)

IndexTriplets ==
    { <<u * FlOne, v * FlOne, w * FlOne>> :
        u \in -MaxIndex..MaxIndex, v \in -MaxIndex..MaxIndex, w \in -MaxIndex..MaxIndex }

Conventions == {None, "mtex"}

InitConvert ==
    /\ self = NoObj
    /\ call = [op |-> "none"]
    /\ ret = NoBatch

\* _hkil2hkl(_hkl2hkil(hkl))
RoundTripHkl ==
    /\ call.op = "none"
    /\ \E hkl \in IndexTriplets :
        /\ call' = [op |-> "hkl2hkil2hkl", value |-> hkl, convention |-> None]
        /\ ret' = _hkil2hkl(_hkl2hkil(<<hkl>>))
    /\ UNCHANGED self

\* _UVTW2uvw(_uvw2UVTW(uvw, convention), convention)
RoundTripUvw ==
    /\ call.op = "none"
    /\ \E uvw \in IndexTriplets, convention \in Conventions :
        /\ call' = [op |-> "uvw2UVTW2uvw", value |-> uvw, convention |-> convention]
        /\ ret' = _UVTW2uvw(_uvw2UVTW(<<uvw>>, convention), convention)
    /\ UNCHANGED self

NextConvert == RoundTripHkl \/ RoundTripUvw

SpecConvert == InitConvert /\ [][NextConvert]_vars

\* --------------------------------------------------------------- angles
\* Index triplets of the batches an angle is taken with.
OtherVec3 == { <<0, 0, One>>, <<One, One, 0>> }

\* The Miller objects of the phase of m made from xyz batches over OtherVec3.
Others(m) ==
    { MillerInit(InitArgs({"xyz"}, b, m.phase, None)).obj :
        b \in SeqsOf(OtherVec3, 1, MaxVectors) }

\* m.angle_with(other, use_symmetry); m is not changed.
CallAngleWith ==
    /\ call.op = "none"
    /\ \E other \in Others(self), use_symmetry \in BOOLEAN :
        /\ call' = [op |-> "angle_with", other |-> other, use_symmetry |-> use_symmetry]
        /\ ret' = AngleWith(self, other, use_symmetry)
        /\ UNCHANGED self

NextAngle == CallAngleWith

SpecAngle == InitQuery /\ [][NextAngle]_vars

\* ------------------------------------------------------------- rounding
RoundPhase == [point_group |-> "4", lattice |-> <<1, 1, 2>>]

\* The integer triplets (h, k, l), not all zero, as indices.
RoundTriplets ==
    { <<h * One, k * One, l * One>> :
        h \in -MaxIndex..MaxIndex, k \in -MaxIndex..MaxIndex, l \in -MaxIndex..MaxIndex }
    \ {ZeroVec}

\* One Miller object per triplet and coordinate format; the quartet of a
\* 4-index format is <<h, k, -(h + k), l>>.
RoundObjects ==
    UNION { { MillerInit(InitArgs({name},
                                  IF name \in FourIndex THEN _hkl2hkil(<<t>>) ELSE <<t>>,
                                  RoundPhase, None)).obj : t \in RoundTriplets } :
            name \in {"uvw", "UVTW", "hkl", "hkil"} }

InitRound ==
    /\ self \in RoundObjects
    /\ call = [op |-> "none"]
    /\ ret = Result(None, NoObj, <<>>, <<>>, FALSE)

\* _round_indices(m.coordinates, max_index)
CallRoundIndices ==
    /\ call.op = "none"
    /\ \E max_index \in 1..MaxMultiplier :
        /\ call' = [op |-> "_round_indices", indices |-> Coordinates(self),
                    max_index |-> max_index]
        /\ ret' = _round_indices(Coordinates(self), max_index)
    /\ UNCHANGED self

\* m.round(max_index); m is not changed.
CallRound ==
    /\ call.op = "none"
    /\ \E max_index \in 1..MaxMultiplier :
        /\ call' = [op |-> "round", indices |-> Coordinates(self), max_index |-> max_index]
        /\ ret' = MillerRound(self, max_index)
    /\ UNCHANGED self

NextRound == CallRoundIndices \/ CallRound

SpecRound == InitRound /\ [][NextRound]_vars

\* ---------------------------------------------------------------- gridding
\* Model of orix.gridding.grid_generators.  Real numbers are integers that
\* count units of 1e-4 (1.0 is One); angles in degrees are integers.
\* pi in units of 1e-4.
Pi == 31416

\* np.deg2rad
Deg2Rad(d) == RoundHalfEven(d * Pi, 180)

\* The Taylor series of cos at t in [0, pi / 2], summed until the term vanishes.
RECURSIVE CosSeries(_, _, _)
CosSeries(t2, term, n) ==
    IF term = 0 THEN 0
    ELSE term + CosSeries(t2, 0 - RoundHalfEven(term * t2, One * (2 * n + 1) * (2 * n + 2)),
                          n + 1)

\* np.cos(t), t in [0, pi]
Cos(t) ==
    IF 2 * t <= Pi THEN CosSeries(RoundHalfEven(t * t, One), One, 0)
    ELSE 0 - CosSeries(RoundHalfEven((Pi - t) * (Pi - t), One), One, 0)

\* np.arccos(x) for x in [0, 1], by bisection of [lo, hi] within [0, pi / 2].
RECURSIVE ArcCosIn(_, _, _)
ArcCosIn(x, lo, hi) ==
    IF hi - lo <= 1 THEN (IF Cos(lo) - x <= x - Cos(hi) THEN lo ELSE hi)
    ELSE LET mid == (lo + hi) \div 2
         IN  IF Cos(mid) >= x THEN ArcCosIn(x, mid, hi) ELSE ArcCosIn(x, lo, mid)

ArcCos(x) == ArcCosIn(x, 0, (Pi + 1) \div 2)

\* A rotation is a rotation about the z axis, held as the half-angle h (in
\* degrees, modulo 360) of its unit quaternion (cos h, 0, 0, sin h).
\* Rotation.a, the scalar part.
ScalarPart(h) == IF h <= 180 THEN Cos(Deg2Rad(h)) ELSE Cos(Deg2Rad(360 - h))

\* center * q
Compose(center, h) == (center + h) % 360

\* center=None
NoCenter == -1

\* create_equispaced_grid(resolution): the rotations by the multiples of
\* resolution degrees.
create_equispaced_grid(resolution) ==
    { (k * resolution) \div 2 : k \in 0..((360 \div resolution) - 1) }

\* q.a > np.arccos(np.deg2rad(grid_width / 2)); arccos of a number above 1
\* is nan, and every comparison with nan is False.
GridKeep(h, grid_width) ==
    LET x == Deg2Rad(grid_width \div 2)
    IN  IF x > One THEN FALSE ELSE ScalarPart(h) > ArcCos(x)

GridResult(raised, grid, space_group_read) ==
    [raised |-> raised, grid |-> grid, space_group_read |-> space_group_read]

\* get_grid_local(resolution, center, grid_width)
get_grid_local(resolution, center, grid_width) ==
    LET q    == create_equispaced_grid(resolution)
        kept == {h \in q : GridKeep(h, grid_width)}
    IN  GridResult(None,
                   IF center # NoCenter THEN {Compose(center, h) : h \in kept} ELSE kept,
                   FALSE)

\* The order of the rotation axis (along z) of the cyclic point groups.
AxisOrder(point_group) ==
    CASE point_group = "1" -> 1
      [] point_group = "2" -> 2
      [] point_group = "4" -> 4

\* q < OrientationRegion.from_symmetry(point_group): the rotation angle lies
\* within 180 / n degrees of 0, the boundary included.
InFundamentalRegion(h, point_group) ==
    LET angle == IF 2 * h <= 180 THEN 2 * h ELSE 360 - 2 * h
    IN  AxisOrder(point_group) * angle <= 180

\* space_group=None
NoSpaceGroup == 0

\* _get_proper_point_group(space_group) for the space groups used here.
_get_proper_point_group(space_group) ==
    IF space_group <= 2 THEN "1" ELSE IF space_group <= 15 THEN "2" ELSE "4"

\* Mutant: the space group decides whenever it is given.
get_grid_fundamental_sg(resolution, point_group, space_group) ==
    IF space_group = NoSpaceGroup /\ point_group = None
    THEN GridResult("TypeError", {}, TRUE)
    ELSE LET pg == IF space_group # NoSpaceGroup THEN _get_proper_point_group(space_group)
                   ELSE point_group
             q  == create_equispaced_grid(resolution)
         IN  GridResult(None, {h \in q : InFundamentalRegion(h, pg)},
                        space_group # NoSpaceGroup)

\* get_grid_fundamental(resolution, point_group, space_group)
get_grid_fundamental(resolution, point_group, space_group) ==
    IF point_group = None /\ space_group = NoSpaceGroup
    THEN GridResult("TypeError", {}, TRUE)
    ELSE LET pg == IF point_group = None THEN _get_proper_point_group(space_group)
                   ELSE point_group
             q  == create_equispaced_grid(resolution)
         IN  GridResult(None, {h \in q : InFundamentalRegion(h, pg)}, point_group = None)

Resolutions == {20, 30, 60, 90}

GridWidths == {10, 20, 80, 180, 240}

Centers == {NoCenter, 0, 45}

SpaceGroups == {NoSpaceGroup, 1, 3, 75}

InitGrid ==
    /\ self = NoObj
    /\ call = [op |-> "none"]
    /\ ret = GridResult(None, {}, FALSE)

CallGridLocal ==
    /\ call.op = "none"
    /\ \E resolution \in Resolutions, center \in Centers, grid_width \in GridWidths :
        /\ call' = [op |-> "get_grid_local", resolution |-> resolution,
                    center |-> center, grid_width |-> grid_width]
        /\ ret' = get_grid_local(resolution, center, grid_width)
    /\ UNCHANGED self

CallGridFundamental ==
    /\ call.op = "none"
    /\ \E resolution \in Resolutions, point_group \in {None, "1", "2", "4"},
          space_group \in SpaceGroups :
        /\ call' = [op |-> "get_grid_fundamental", resolution |-> resolution,
                    point_group |-> point_group, space_group |-> space_group]
        /\ ret' = get_grid_fundamental(resolution, point_group, space_group)
    /\ UNCHANGED self

NextGrid == CallGridLocal \/ CallGridFundamental

SpecGrid == InitGrid /\ [][NextGrid]_vars

\* --------------------------------------------------- vectors from limits
\* A min_dspacing is a rational <<num, den>>, den > 0, in the unit of the
\* lattice parameters; plane indices here are plain integers.
\* 1 / lattice.rnorm(hkl) > min_dspacing for an orthogonal lattice, where
\* 1/d^2 = (h/a)^2 + (k/b)^2 + (l/c)^2; 1 / rnorm of (000) is inf.
DGreater(hkl, lattice, min_dspacing) ==
    LET P == lattice[1] * lattice[2] * lattice[3]
        S == SumSeq([c \in 1..3 |-> (hkl[c] * (P \div lattice[c])) * (hkl[c] * (P \div lattice[c]))])
    IN  \/ hkl = ZeroVec
        \/ min_dspacing[1] < 0
        \/ min_dspacing[2] * min_dspacing[2] * P * P > min_dspacing[1] * min_dspacing[1] * S

\* hkl = zeros(3); hkl[i] = n
AlongAxis(i, n) == [c \in 1..3 |-> IF c = i THEN n ELSE 0]

\* The while loop of _get_highest_hkl for axis i, entered with hkl[i] = n;
\* it ends only for a min_dspacing above 0.
RECURSIVE HighestAlong(_, _, _, _)
HighestAlong(lattice, min_dspacing, i, n) ==
    IF DGreater(AlongAxis(i, n), lattice, min_dspacing)
    THEN HighestAlong(lattice, min_dspacing, i, n + 1)
    ELSE n - 1

\* _get_highest_hkl(lattice, min_dspacing), min_dspacing > 0
_get_highest_hkl(lattice, min_dspacing) ==
    [i \in 1..3 |-> HighestAlong(lattice, min_dspacing, i, 1)]

\* list(product(*index_ranges)): the first index varies slowest.
IndexProduct(h) ==
    LET n(c) == 2 * h[c] + 1
    IN  [k \in 1..(n(1) * n(2) * n(3)) |->
            << ((k - 1) \div (n(2) * n(3))) - h[1],
               (((k - 1) \div n(3)) % n(2)) - h[2],
               ((k - 1) % n(3)) - h[3] >>]

IndexResult(raised, indices, obj) == [raised |-> raised, indices |-> indices, obj |-> obj]

\* Mutant: the list is not reversed.
_get_indices_from_highest_ascending(highest_indices) ==
    IF (\E c \in 1..3 : highest_indices[c] < 0) \/ (\A c \in 1..3 : highest_indices[c] = 0)
    THEN IndexResult("ValueError", <<>>, NoObj)
    ELSE IndexResult(None,
                     SelectSeq(IndexProduct(highest_indices), LAMBDA v : v # ZeroVec),
                     NoObj)

\* _get_indices_from_highest(highest_indices)
_get_indices_from_highest(highest_indices) ==
    IF (\E c \in 1..3 : highest_indices[c] < 0) \/ (\A c \in 1..3 : highest_indices[c] = 0)
    THEN IndexResult("ValueError", <<>>, NoObj)
    ELSE IndexResult(None,
                     Reverse(SelectSeq(IndexProduct(highest_indices), LAMBDA v : v # ZeroVec)),
                     NoObj)

\* Integer indices as index values.
AsIndices(idx) == [j \in 1..Len(idx) |-> [c \in 1..3 |-> idx[j][c] * One]]

\* cls(<coordinate_format>=idx, phase=phase).unique()
UniqueFrom(coordinate_format, idx, phase) ==
    LET r == MillerInit(InitArgs({coordinate_format}, AsIndices(idx), phase, None))
    IN  IF r.raised # None THEN IndexResult(r.raised, <<>>, NoObj)
        ELSE IndexResult(None, idx, MillerUnique(r.obj, FALSE, FALSE).obj)

\* No highest indices passed.
NoIndices == <<>>

\* Miller.from_highest_indices(phase, uvw, hkl)
from_highest_indices(phase, uvw, hkl) ==
    IF uvw = NoIndices /\ hkl = NoIndices THEN IndexResult("ValueError", <<>>, NoObj)
    ELSE LET coordinate_format == IF uvw # NoIndices THEN "uvw" ELSE "hkl"
             r == _get_indices_from_highest(IF uvw # NoIndices THEN uvw ELSE hkl)
         IN  IF r.raised # None THEN r
             ELSE UniqueFrom(coordinate_format, r.indices, phase)

\* Miller.from_min_dspacing(phase, min_dspacing), min_dspacing > 0
from_min_dspacing(phase, min_dspacing) ==
    LET r == _get_indices_from_highest(_get_highest_hkl(phase.lattice, min_dspacing))
    IN  IF r.raised # None THEN r
        ELSE UniqueFrom("hkl", r.indices, phase)

MaxHighest == 2

HighestIndices ==
    { <<a, b, c>> : a \in (0 - 1)..MaxHighest, b \in (0 - 1)..MaxHighest, c \in (0 - 1)..MaxHighest }

\* Highest indices passed to from_highest_indices.
SomeHighest == { <<1, 1, 1>>, <<0, 0, 0>>, <<0 - 1, 1, 1>>, <<1, 0, MaxHighest>> }

\* Thresholds above 0.
PositiveDspacings == { <<3, 5>>, <<4, 5>>, <<1, 1>>, <<3, 2>>, <<5, 2>> }

InitLimits ==
    /\ self = NoObj
    /\ call = [op |-> "none"]
    /\ ret = IndexResult(None, <<>>, NoObj)

CallIndicesFromHighest ==
    /\ call.op = "none"
    /\ \E highest_indices \in HighestIndices :
        /\ call' = [op |-> "_get_indices_from_highest", highest_indices |-> highest_indices]
        /\ ret' = _get_indices_from_highest(highest_indices)
    /\ UNCHANGED self

CallFromHighestIndices ==
    /\ call.op = "none"
    /\ \E phase \in Phases \cup {NoPhase},
          uvw \in SomeHighest \cup {NoIndices}, hkl \in SomeHighest \cup {NoIndices} :
        /\ call' = [op |-> "from_highest_indices", phase |-> phase, uvw |-> uvw, hkl |-> hkl]
        /\ ret' = from_highest_indices(phase, uvw, hkl)
    /\ UNCHANGED self

CallFromMinDspacing ==
    /\ call.op = "none"
    /\ \E phase \in Phases, min_dspacing \in PositiveDspacings :
        /\ call' = [op |-> "from_min_dspacing", phase |-> phase, min_dspacing |-> min_dspacing]
        /\ ret' = from_min_dspacing(phase, min_dspacing)
    /\ UNCHANGED self

NextLimits == CallIndicesFromHighest \/ CallFromHighestIndices \/ CallFromMinDspacing

SpecLimits == InitLimits /\ [][NextLimits]_vars

\* ------------------------------------------------- the search for limits
\* _get_highest_hkl step by step.  Here self is the frame of the call: the
\* axis i (1..3), the counter n = hkl[i], highest_hkl, and pc ("while" at the
\* loop test, "done" after the return).
\* The counter hkl[i] is a float64: n + 1 = n from 2^53 on.  MaxCount stands
\* for that number.
MaxCount == 8

SearchFrame(i, n, highest_hkl, pc) ==
    [i |-> i, n |-> n, highest_hkl |-> highest_hkl, pc |-> pc]

\* Thresholds, with zero and a negative one.
MinDspacings == PositiveDspacings \cup { <<0, 1>>, <<0 - 1, 2>> }

\* highest_hkl = ones(3); i = 0; hkl = zeros(3); hkl[i] = 1
InitSearch ==
    /\ \E phase \in Phases, min_dspacing \in MinDspacings :
           call = [op |-> "_get_highest_hkl", lattice |-> phase.lattice,
                   min_dspacing |-> min_dspacing]
    /\ self = SearchFrame(1, 1, <<1, 1, 1>>, "while")
    /\ ret = IndexResult(None, <<>>, NoObj)

\* while d > min_dspacing: hkl[i] += 1
LoopBody ==
    /\ self.pc = "while"
    /\ DGreater(AlongAxis(self.i, self.n), call.lattice, call.min_dspacing)
    /\ self' = [self EXCEPT !.n = IF self.n = MaxCount THEN self.n ELSE self.n + 1]
    /\ UNCHANGED <<call, ret>>

\* d <= min_dspacing: highest_hkl[i] = hkl[i] - 1, then the next axis or the
\* return.
LoopExit ==
    /\ self.pc = "while"
    /\ ~DGreater(AlongAxis(self.i, self.n), call.lattice, call.min_dspacing)
    /\ LET highest_hkl == [self.highest_hkl EXCEPT ![self.i] = self.n - 1]
       IN  IF self.i < 3
           THEN /\ self' = SearchFrame(self.i + 1, 1, highest_hkl, "while")
                /\ UNCHANGED ret
           ELSE /\ self' = SearchFrame(self.i, self.n, highest_hkl, "done")
                /\ ret' = IndexResult(None, <<highest_hkl>>, NoObj)
    /\ UNCHANGED call

NextSearch == LoopBody \/ LoopExit

SpecSearch == InitSearch /\ [][NextSearch]_vars

\* The interpreter keeps running the loop.
SpecSearchFair == SpecSearch /\ WF_vars(NextSearch)

\* ---------------------------------------------------------------- sampling
\* Model of orix.sampling.SO3_sampling, in the fixed-point numbers of the
\* gridding section (units of 1e-4).  A rotation is its unit quaternion
\* <<a, b, c, d>>.
\* np.cos(t) for any t
CosAny(t) ==
    LET r == t % (2 * Pi)
    IN  IF r <= Pi THEN Cos(r) ELSE Cos(2 * Pi - r)

\* np.sin(t) for any t
SinAny(t) == CosAny(t - RoundHalfEven(Pi, 2))

\* np.arccos(x), x in [-1, 1]
ArcCosAny(x) == IF x >= 0 THEN ArcCos(x) ELSE Pi - ArcCos(0 - x)

\* np.arcsin(x), x in [-1, 1]
ArcSin(x) == RoundHalfEven(Pi, 2) - ArcCosAny(x)

\* np.sqrt(x) for x in [0, 1], by bisection of [lo, hi].
RECURSIVE SqrtIn(_, _, _)
SqrtIn(x, lo, hi) ==
    IF hi - lo <= 1 THEN (IF x * One - lo * lo <= hi * hi - x * One THEN lo ELSE hi)
    ELSE LET mid == (lo + hi) \div 2
         IN  IF mid * mid <= x * One THEN SqrtIn(x, mid, hi) ELSE SqrtIn(x, lo, mid)

Sqrt(x) == SqrtIn(x, 0, One)

\* x * y
Mul(x, y) == RoundHalfEven(x * y, One)

\* np.linspace(start, stop, num, endpoint) as the set of its values
Linspace(start, stop, num, endpoint) ==
    LET div == IF endpoint THEN num - 1 ELSE num
    IN  IF num = 1 THEN {start}
        ELSE { start + RoundHalfEven(i * (stop - start), div) : i \in 0..(num - 1) }

\* num_steps = int(np.ceil(360 / resolution))
NumSteps(resolution) == (360 + resolution - 1) \div resolution

\* max_angle=None
NoAngle == -1

\* _three_uniform_samples_method(resolution, max_angle); q.unique() leaves
\* the set of the quaternions.
_three_uniform_samples_method(resolution, max_angle) ==
    LET num_steps == NumSteps(resolution)
        e_1_min   == Cos(RoundHalfEven(max_angle * Pi, 360))
        u_1_max   == One - Mul(e_1_min, e_1_min)
        u_2_min   == RoundHalfEven(ArcSin(e_1_min) * One, 2 * Pi)
        int_1     == (num_steps * u_1_max) \div One
        int_2     == (num_steps * (One - u_2_min)) \div One
        num_1     == IF int_1 > 1 THEN int_1 ELSE 2
        num_2     == IF int_2 > 1 THEN int_2 ELSE 2
        u_1       == IF max_angle = NoAngle THEN Linspace(0, One, num_steps, TRUE)
                     ELSE Linspace(0, u_1_max, num_1, TRUE)
        u_2       == IF max_angle = NoAngle THEN Linspace(0, One, num_steps, TRUE)
                     ELSE Linspace(u_2_min, One, num_2, TRUE)
        u_3       == Linspace(0, One, num_steps, TRUE)
    IN  { << Mul(Sqrt(One - m1), SinAny(Mul(2 * Pi, m2))),
             Mul(Sqrt(One - m1), CosAny(Mul(2 * Pi, m2))),
             Mul(Sqrt(m1), SinAny(Mul(2 * Pi, m3))),
             Mul(Sqrt(m1), CosAny(Mul(2 * Pi, m3))) >> :
          m1 \in u_1, m2 \in u_2, m3 \in u_3 }

\* Rotation.from_euler(<<alpha, beta, gamma>>, convention="bunge",
\* direction="crystal2lab")
FromEuler(alpha, beta, gamma) ==
    LET sigma == (alpha + gamma) \div 2
        delta == (alpha - gamma) \div 2
        c     == CosAny(beta \div 2)
        s     == SinAny(beta \div 2)
    IN  << Mul(c, CosAny(sigma)), 0 - Mul(s, CosAny(delta)),
           0 - Mul(s, SinAny(delta)), 0 - Mul(c, SinAny(sigma)) >>

\* _euler_angles_harr_measure(resolution)
_euler_angles_harr_measure(resolution) ==
    LET steps      == NumSteps(resolution)
        num_steps  == IF steps % 2 = 1 THEN steps + 1 ELSE steps
        half_steps == num_steps \div 2
        alpha      == Linspace(0, 2 * Pi, num_steps, FALSE)
        beta       == {ArcCosAny(x) : x \in Linspace(One, 0 - One, half_steps, FALSE)}
        gamma      == Linspace(0, 2 * Pi, num_steps, FALSE)
    IN  { FromEuler(al, be, ga) : al \in alpha, be \in beta, ga \in gamma }

SampleResult(raised, method, max_angle, grid) ==
    [raised |-> raised, method |-> method, max_angle |-> max_angle, grid |-> grid]

\* Mutant: old_method does not look at max_angle.
uniform_SO3_sample_unchecked(resolution, max_angle, old_method) ==
    IF old_method
    THEN SampleResult(None, "_euler_angles_harr_measure", NoAngle,
                      _euler_angles_harr_measure(resolution))
    ELSE SampleResult(None, "_three_uniform_samples_method", max_angle,
                      _three_uniform_samples_method(resolution, max_angle))

\* uniform_SO3_sample(resolution, max_angle, old_method): what is raised,
\* the method called, the max_angle passed to it, and the rotations returned.
uniform_SO3_sample(resolution, max_angle, old_method) ==
    IF max_angle # NoAngle /\ old_method
    THEN SampleResult("ValueError", None, NoAngle, {})
    ELSE IF old_method
    THEN SampleResult(None, "_euler_angles_harr_measure", NoAngle,
                      _euler_angles_harr_measure(resolution))
    ELSE SampleResult(None, "_three_uniform_samples_method", max_angle,
                      _three_uniform_samples_method(resolution, max_angle))

SampleResolutions == {36, 40, 45, 60, 72, 90, 120, 180}

MaxAngles == {NoAngle, 30, 60, 90, 120, 150, 170}

InitSample ==
    /\ self = NoObj
    /\ call = [op |-> "none"]
    /\ ret = SampleResult(None, None, NoAngle, {})

CallUniformSO3Sample ==
    /\ call.op = "none"
    /\ \E resolution \in SampleResolutions, max_angle \in MaxAngles, old_method \in BOOLEAN :
        /\ call' = [op |-> "uniform_SO3_sample", resolution |-> resolution,
                    max_angle |-> max_angle, old_method |-> old_method]
        /\ ret' = uniform_SO3_sample(resolution, max_angle, old_method)
    /\ UNCHANGED self

NextSample == CallUniformSO3Sample

SpecSample == InitSample /\ [][NextSample]_vars

\* ---------------------------------------------------------------- .ang files
\* Model of orix.io.ang.  A file is its header, reduced to the vendor
\* footprints it contains, and its data rows (file_data), one per point.
Footprints == <<"EMsoft", "ACOM">>

VendorOfFootprint(footprint) == IF footprint = "EMsoft" THEN "emsoft" ELSE "astar"

\* The loop over vendor_footprint: a later footprint found overrides an
\* earlier one.
RECURSIVE VendorFromHeader(_, _, _)
VendorFromHeader(header, k, vendor) ==
    IF k > Len(Footprints) THEN vendor
    ELSE VendorFromHeader(header, k + 1,
                          IF Footprints[k] \in header
                          THEN VendorOfFootprint(Footprints[k]) ELSE vendor)

VendorColumns(vendor) ==
    CASE vendor = "unknown" ->
           <<"euler1", "euler2", "euler3", "x", "y", "unknown1", "unknown2", "phase_id">>
      [] vendor = "tsl" ->
           <<"euler1", "euler2", "euler3", "x", "y", "iq", "ci", "phase_id", "unknown1",
             "fit", "unknown2", "unknown3", "unknown4", "unknown5">>
      [] vendor = "emsoft" ->
           <<"euler1", "euler2", "euler3", "x", "y", "iq", "dp", "phase_id">>
      [] vendor = "astar" ->
           <<"euler1", "euler2", "euler3", "x", "y", "ind", "rel", "phase_id", "relx100">>

\* "unknown" + str(i + 3) for the columns beyond the eight known ones
ExtraColumns(n) ==
    [i \in 1..n |-> CASE i = 1 -> "unknown3" [] i = 2 -> "unknown4" [] i = 3 -> "unknown5"
                      [] i = 4 -> "unknown6" [] i = 5 -> "unknown7" [] OTHER -> "unknown8+"]

\* _get_vendor_columns(header, n_cols_file)
_get_vendor_columns(header, n_cols_file) ==
    LET vendor == VendorFromHeader(header, 1, "tsl")
    IN  IF n_cols_file # Len(VendorColumns(vendor))
        THEN [vendor |-> "unknown",
              column_names |-> VendorColumns("unknown") \o
                  (IF n_cols_file > Len(VendorColumns("unknown"))
                   THEN ExtraColumns(n_cols_file - Len(VendorColumns("unknown")))
                   ELSE <<>>)]
        ELSE [vendor |-> vendor, column_names |-> VendorColumns(vendor)]

\* file_data[:, column] for the column called name
Column(file_data, column_names, name) ==
    LET column == CHOOSE c \in 1..Len(column_names) : column_names[c] = name
    IN  [p \in 1..Len(file_data) |-> file_data[p][column]]

\* Mutant: every vendor's seventh column is taken for a confidence index.
load_ang_any_vendor(header, file_data) ==
    LET vc       == _get_vendor_columns(header, Len(file_data[1]))
        phase_id == Column(file_data, vc.column_names, "phase_id")
        ci       == [p \in 1..Len(file_data) |-> file_data[p][7]]
    IN  [vendor   |-> vc.vendor,
         phase_id |-> [p \in 1..Len(phase_id) |-> IF ci[p] = 0 - 1 THEN 0 - 1 ELSE phase_id[p]]]

\* load_ang: the vendor found and the phase_id passed to CrystalMap.
load_ang(header, file_data) ==
    LET vc       == _get_vendor_columns(header, Len(file_data[1]))
        phase_id == Column(file_data, vc.column_names, "phase_id")
    IN  [vendor   |-> vc.vendor,
         phase_id |-> IF vc.vendor = "tsl"
                      THEN LET ci == Column(file_data, vc.column_names, "ci")
                           IN  [p \in 1..Len(phase_id) |->
                                   IF ci[p] = 0 - 1 THEN 0 - 1 ELSE phase_id[p]]
                      ELSE phase_id]

MaxPoints == 2

ColumnCounts == {8, 9, 10, 14}

\* A data row: zeros but for the seventh and eighth columns.
Row(n_cols, seventh, eighth) ==
    [c \in 1..n_cols |-> IF c = 7 THEN seventh ELSE IF c = 8 THEN eighth ELSE 0]

Files ==
    UNION { SeqsOf({Row(n_cols, seventh, eighth) : seventh \in {0 - 1, 0, 1}, eighth \in {0, 1}},
                   1, MaxPoints) : n_cols \in ColumnCounts }

InitAng ==
    /\ self = NoObj
    /\ call = [op |-> "none"]
    /\ ret = [vendor |-> None, phase_id |-> <<>>]

CallLoadAng ==
    /\ call.op = "none"
    /\ \E header \in SUBSET Range(Footprints), file_data \in Files :
        /\ call' = [op |-> "load_ang", header |-> header, file_data |-> file_data]
        /\ ret' = load_ang(header, file_data)
    /\ UNCHANGED self

NextAng == CallLoadAng

SpecAng == InitAng /\ [][NextAng]_vars

\* --------------------------------------------------------------- phase lists
\* Model of orix.crystal_map.phase_list.  A dictionary is the sequence of its
\* items [id, phase] in iteration order; a list argument is a record saying
\* whether it was passed and what it holds.
NotGiven == [given |-> FALSE, list |-> <<>>]

Given(list) == [given |-> TRUE, list |-> list]

\* The first keys of ALL_COLORS
AllColors == <<"tab:blue", "tab:orange", "tab:green", "tab:red", "tab:purple", "tab:brown">>

\* Names of point groups in _groups
GroupNames == {"1", "432"}

\* Phase.symmetry setter: the symmetry stored for value; "ValueError" stands
\* for the exception.
PhaseSymmetry(value) ==
    IF value = None THEN None
    ELSE IF value = "43" THEN "432"
    ELSE IF value \in GroupNames THEN value
    ELSE "ValueError"

\* Phase(name, symmetry, color)
Phase(name, symmetry, color) ==
    [name |-> name, symmetry |-> PhaseSymmetry(symmetry),
     color |-> IF color = None THEN "tab:blue" ELSE color]

\* d[key] = value
DictSet(d, key, value) ==
    IF \E k \in 1..Len(d) : d[k].id = key
    THEN [k \in 1..Len(d) |-> IF d[k].id = key THEN [id |-> key, phase |-> value] ELSE d[k]]
    ELSE Append(d, [id |-> key, phase |-> value])

\* OrderedDict(sorted(d.items()))
SortedItems(d) == SortBy(LAMBDA x, y : x.id < y.id, d)

\* get_entry_or_none(input_list, i), i counted from 0
GetEntryOrNone(arg, i) == IF arg.given /\ i < Len(arg.list) THEN arg.list[i + 1] ELSE None

\* len(i) if i is not None else 0
LenOrZero(arg) == IF arg.given THEN Len(arg.list) ELSE 0

\* The loop of PhaseList.__init__ from entry i on; raised is the exception
\* that ends it, d the dictionary made.
RECURSIVE BuildDict(_, _, _, _, _, _, _, _, _)
BuildDict(names, symmetries, colors, phase_ids, max_entries, i, color_iter, phase_id_iter, d) ==
    IF i >= max_entries THEN [raised |-> None, d |-> d]
    ELSE
        LET name      == GetEntryOrNone(names, i)
            symmetry  == GetEntryOrNone(symmetries, i)
            own_color == colors.given /\ i < Len(colors.list)
            color     == IF own_color THEN colors.list[i + 1] ELSE AllColors[color_iter + 1]
            own_id    == i < Len(phase_ids)
        IN  IF ~own_id /\ phase_ids = <<>> THEN [raised |-> "ValueError", d |-> <<>>]
            ELSE IF PhaseSymmetry(symmetry) = "ValueError"
            THEN [raised |-> "ValueError", d |-> <<>>]
            ELSE BuildDict(names, symmetries, colors, phase_ids, max_entries, i + 1,
                           IF own_color THEN color_iter ELSE color_iter + 1,
                           IF own_id THEN phase_id_iter ELSE phase_id_iter + 1,
                           DictSet(d,
                                   IF own_id THEN phase_ids[i + 1]
                                   ELSE Max(Range(phase_ids)) + phase_id_iter + 1,
                                   Phase(name, symmetry, color)))

\* PhaseList(names=, symmetries=, colors=, phase_ids=)
PhaseListInit(names, symmetries, colors, phase_ids) ==
    LET max_entries == Max({LenOrZero(names), LenOrZero(symmetries), LenOrZero(phase_ids)})
        ids == IF phase_ids.given THEN phase_ids.list ELSE [k \in 1..max_entries |-> k - 1]
        r   == BuildDict(names, symmetries, colors, ids, max_entries, 0, 0, 0, <<>>)
    IN  [raised |-> r.raised, d |-> SortedItems(r.d)]

\* PhaseList.names, .colors, .phase_ids
Names(d) == [k \in 1..Len(d) |-> d[k].phase.name]

Colors(d) == [k \in 1..Len(d) |-> d[k].phase.color]

PhaseIds(d) == [k \in 1..Len(d) |-> d[k].id]

\* The first color of ALL_COLORS that no phase has, None if there is none.
NewColor(d) ==
    LET free == SelectSeq(AllColors, LAMBDA c : c \notin Range(Colors(d)))
    IN  IF free = <<>> THEN None ELSE free[1]

\* Mutant: the new id is the number of phases.
PhaseListSetItem_len(d, key, value) ==
    IF key \in Range(Names(d)) THEN [raised |-> "ValueError", d |-> d]
    ELSE IF PhaseSymmetry(value) = "ValueError" THEN [raised |-> "ValueError", d |-> d]
    ELSE [raised |-> None, d |-> DictSet(d, Len(d), Phase(key, value, NewColor(d)))]

\* PhaseList.__setitem__(key, value) on the dictionary d
PhaseListSetItem(d, key, value) ==
    IF key \in Range(Names(d)) THEN [raised |-> "ValueError", d |-> d]
    ELSE IF PhaseSymmetry(value) = "ValueError" THEN [raised |-> "ValueError", d |-> d]
    ELSE [raised |-> None,
          d |-> DictSet(d,
                        IF PhaseIds(d) # <<>> THEN Max(Range(PhaseIds(d))) + 1 ELSE 0,
                        Phase(key, value, NewColor(d)))]

NameLists == {NotGiven, Given(<<>>), Given(<<"a">>), Given(<<"a", "b">>), Given(<<"a", "a">>)}

SymmetryLists == {NotGiven, Given(<<"432">>), Given(<<"43", "1">>), Given(<<"m-3m?">>)}

ColorLists == {NotGiven, Given(<<"tab:red">>)}

IdLists ==
    {NotGiven, Given(<<>>), Given(<<1>>), Given(<<2>>), Given(<<3, 0>>), Given(<<1, 1>>),
     Given(<<0, 1, 3>>)}

\* The number of assignments followed.
MaxSets == 2

InitPhaseList ==
    /\ self = [dict |-> <<>>]
    /\ call = [op |-> "none", sets |-> 0]
    /\ ret = [raised |-> None]

\* pl = PhaseList(names=, symmetries=, colors=, phase_ids=)
ConstructPhaseList ==
    /\ call.op = "none"
    /\ \E names \in NameLists, symmetries \in SymmetryLists, colors \in ColorLists,
          phase_ids \in IdLists :
        LET r == PhaseListInit(names, symmetries, colors, phase_ids)
        IN  /\ call' = [op |-> "init", sets |-> 0, names |-> names,
                        symmetries |-> symmetries, colors |-> colors,
                        phase_ids |-> phase_ids]
            /\ ret' = [raised |-> r.raised]
            /\ self' = [dict |-> r.d]

\* pl[key] = value
SetItem ==
    /\ call.op \in {"init", "setitem"}
    /\ call.op = "init" => ret.raised = None
    /\ call.sets < MaxSets
    /\ \E key \in {"a", "c"}, value \in {None, "432", "m-3m?"} :
        LET r == PhaseListSetItem(self.dict, key, value)
        IN  /\ call' = [op |-> "setitem", sets |-> call.sets + 1, key |-> key,
                        value |-> value, old |-> self]
            /\ ret' = [raised |-> r.raised]
            /\ self' = [dict |-> r.d]

NextPhaseList == ConstructPhaseList \/ SetItem

SpecPhaseList == InitPhaseList /\ [][NextPhaseList]_vars

\* ------------------------------------------------------------------ claims
\* w is the image of u under some operation of the point group.
Equivalent(u, w, operations) == \E g \in Range(operations) : Apply(g, u) = w

\* The number of distinct vectors in the orbit of u.
OrbitSize(u, operations) == Cardinality({Apply(g, u) : g \in Range(operations)})

SelfOps == PointGroup(self.phase.point_group)

SymUniqueReturned ==
    call.op = "symmetrise" /\ call.unique /\ ret.raised = None

UniqueReturned == call.op = "unique" /\ ret.raised = None

UniqueSymReturned == UniqueReturned /\ call.use_symmetry

\* C1: symmetrise(unique=True, return_multiplicity=True) returns one
\* multiplicity per input vector, none larger than the order of the point
\* group, and as many vectors as the multiplicities sum to.
C1_MultiplicitySum ==
    (SymUniqueReturned /\ call.return_multiplicity) =>
        /\ Len(ret.multiplicity) = Len(self.data)
        /\ \A i \in 1..Len(ret.multiplicity) :
               ret.multiplicity[i] >= 0 /\ ret.multiplicity[i] <= Len(SelfOps)
        /\ Len(ret.obj.data) = SumSeq(ret.multiplicity)

\* A batch of two vectors with different multiplicities, one of them reduced
\* (more than one and fewer than the order of the group).
C1_Witness ==
    /\ SymUniqueReturned /\ call.return_multiplicity
    /\ Len(self.data) = 2
    /\ ret.multiplicity[1] # ret.multiplicity[2]
    /\ \E i \in 1..2 : ret.multiplicity[i] > 1 /\ ret.multiplicity[i] < Len(SelfOps)

\* C2: symmetrise(unique=True, return_index=True) returns one index per
\* returned vector, and returned vector j is the image of input vector idx[j]
\* under an operation of the point group, wherever a zero vector sits.
C2_IndexIsOrigin ==
    (SymUniqueReturned /\ call.return_index) =>
        /\ Len(ret.idx) = Len(ret.obj.data)
        /\ \A j \in 1..Len(ret.idx) :
               /\ ret.idx[j] \in 0..(Len(self.data) - 1)
               /\ Equivalent(self.data[ret.idx[j] + 1], ret.obj.data[j], SelfOps)

\* A zero vector in front of a vector whose orbit is returned.
C2_Witness ==
    /\ SymUniqueReturned /\ call.return_index
    /\ Len(self.data) = 2
    /\ IsZero(self.data[1])
    /\ Len(ret.idx) > 1

\* The hkl indices of input vector i of self.
SelfHkl(i) == _xyz2hkl(self.data, self.phase.lattice)[i]

\* C3 as stated: the multiplicity symmetrise(unique=True,
\* return_multiplicity=True) returns for input vector i is the number of
\* distinct vectors in the orbit of vector i, 8 for hkl = [1, 1, 1] under the
\* 24 proper cubic rotations, and Miller.multiplicity returns the same values.
C3_Original ==
    (SymUniqueReturned /\ call.return_multiplicity) =>
        /\ \A i \in 1..Len(self.data) :
               /\ ret.multiplicity[i] = OrbitSize(self.data[i], SelfOps)
               /\ (self.phase.point_group = "432" /\ SelfHkl(i) = <<One, One, One>>)
                      => ret.multiplicity[i] = 8
        /\ Multiplicity(self) = ret.multiplicity

\* C3 amended: the multiplicity of a non-zero input vector is the number of
\* distinct vectors in its orbit (8 for hkl = [1, 1, 1] under the 24 proper
\* cubic rotations), the multiplicity of a zero input vector is 0, and
\* Miller.multiplicity returns the same values.
C3_OrbitSize ==
    (SymUniqueReturned /\ call.return_multiplicity) =>
        /\ \A i \in 1..Len(self.data) :
               /\ ret.multiplicity[i] =
                      (IF IsZero(self.data[i]) THEN 0 ELSE OrbitSize(self.data[i], SelfOps))
               /\ (self.phase.point_group = "432" /\ SelfHkl(i) = <<One, One, One>>)
                      => ret.multiplicity[i] = 8
        /\ Multiplicity(self) = ret.multiplicity

\* hkl = [1, 1, 1] under the 24 proper cubic rotations, beside a zero vector.
C3_Witness ==
    /\ SymUniqueReturned /\ call.return_multiplicity
    /\ self.phase.point_group = "432" /\ self.coordinate_format = "hkl"
    /\ Len(self.data) = 2
    /\ SelfHkl(1) = <<One, One, One>> /\ IsZero(self.data[2])
    /\ ret.multiplicity = <<8, 0>>

\* C4: symmetrise raises ValueError exactly when return_multiplicity or
\* return_index is asked for without unique, and then before
\* operations.outer() is evaluated and without a result.
C4_FlagsError ==
    call.op = "symmetrise" =>
        /\ (ret.raised = "ValueError") =
               ((call.return_multiplicity \/ call.return_index) /\ ~call.unique)
        /\ ret.raised = "ValueError" =>
               (~ret.outer /\ ret.obj = NoObj /\ ret.multiplicity = <<>> /\ ret.idx = <<>>)

\* return_index alone without unique, on an object with a phase.
C4_Witness ==
    /\ call.op = "symmetrise"
    /\ call.return_index /\ ~call.return_multiplicity /\ ~call.unique
    /\ self.phase # NoPhase
    /\ ret.raised = "ValueError"

\* The vectors super().unique() leaves of the batch of self.
SelfReduced == Vector3dUnique(self.data).v

\* The returned vectors that input vector u is equivalent to.
Matches(u) == {j \in 1..Len(ret.obj.data) : Equivalent(u, ret.obj.data[j], SelfOps)}

PairwiseInequivalent ==
    \A j, k \in 1..Len(ret.obj.data) :
        j # k => ~Equivalent(ret.obj.data[j], ret.obj.data[k], SelfOps)

\* C5 as stated: the vectors unique(use_symmetry=True) returns are pairwise
\* not symmetry-equivalent and every input vector is equivalent to exactly one
\* of them.
C5_Original ==
    UniqueSymReturned =>
        /\ PairwiseInequivalent
        /\ \A i \in 1..Len(self.data) : Cardinality(Matches(self.data[i])) = 1

\* C5 amended: the vectors unique(use_symmetry=True) returns are non-zero and
\* pairwise not symmetry-equivalent, and every non-zero input vector is
\* equivalent to exactly one of them (zero input vectors are dropped).
C5_OnePerClass ==
    UniqueSymReturned =>
        /\ PairwiseInequivalent
        /\ \A j \in 1..Len(ret.obj.data) : ~IsZero(ret.obj.data[j])
        /\ \A i \in 1..Len(self.data) :
               ~IsZero(self.data[i]) => Cardinality(Matches(self.data[i])) = 1

\* Two different equivalent vectors ([100] and [010] under a four-fold axis)
\* collapse to one.
C5_Witness ==
    /\ UniqueSymReturned
    /\ Len(self.data) = 2
    /\ self.data[1] # self.data[2]
    /\ ~IsZero(self.data[1]) /\ ~IsZero(self.data[2])
    /\ Len(ret.obj.data) = 1

\* The 1-based positions in the reduced batch of the members of the class of u.
ClassOf(u) == {k \in 1..Len(SelfReduced) : Equivalent(u, SelfReduced[k], SelfOps)}

Min(S) == CHOOSE x \in S : \A y \in S : x <= y

\* C6 as stated: of several equivalent vectors unique(use_symmetry=True) keeps
\* the last class member in the order of the deduplicated batch.
C6_Original ==
    UniqueSymReturned =>
        \A j \in 1..Len(ret.obj.data) :
            ret.obj.data[j] = SelfReduced[Max(ClassOf(ret.obj.data[j]))]

\* C6 amended: of several equivalent vectors unique(use_symmetry=True) keeps
\* the first class member in the order of the deduplicated batch (the one with
\* the smallest index); the reversal only orders the classes.
C6_FirstMember ==
    UniqueSymReturned =>
        \A j \in 1..Len(ret.obj.data) :
            ret.obj.data[j] = SelfReduced[Min(ClassOf(ret.obj.data[j]))]

\* A class with two different members in the batch.
C6_Witness ==
    /\ UniqueSymReturned
    /\ \E j \in 1..Len(ret.obj.data) : Cardinality(ClassOf(ret.obj.data[j])) > 1

\* C7 as stated: with return_index=True unique returns one index per returned
\* vector, and indexing the flattened batch of self with idx[j] gives returned
\* vector j, for use_symmetry=False and for use_symmetry=True.
C7_Original ==
    (UniqueReturned /\ call.return_index) =>
        /\ Len(ret.idx) = Len(ret.obj.data)
        /\ \A j \in 1..Len(ret.idx) :
               /\ ret.idx[j] \in 0..(Len(self.data) - 1)
               /\ self.data[ret.idx[j] + 1] = ret.obj.data[j]

\* C8: unique applied to what unique returned gives the same set of vectors,
\* for either value of use_symmetry.
C8_Idempotent ==
    UniqueReturned =>
        LET again == MillerUnique(ret.obj, call.use_symmetry, FALSE)
        IN  /\ again.raised = None
            /\ Range(again.obj.data) = Range(ret.obj.data)

\* A batch that unique(use_symmetry=True) reduces (a zero vector or an
\* equivalent vector goes) and of which a vector is left.
C8_Witness ==
    /\ UniqueSymReturned
    /\ Len(ret.obj.data) >= 1
    /\ Len(ret.obj.data) < Len(self.data)

\* The first three indices of every quartet of q sum to zero within tol.
ClosedWithin(q, tol) ==
    \A j \in 1..Len(q) : -tol <= q[j][1] + q[j][2] + q[j][3] /\ q[j][1] + q[j][2] + q[j][3] <= tol

AssignedFourIndex == call.op = "set" /\ call.name \in FourIndex

\* C9 as stated: assigning to hkil or UVTW a value whose first three indices
\* do not sum to zero (here: not even within the tolerance of the
\* constructor) is rejected with an error and the stored coordinates stay.
C9_Original ==
    (AssignedFourIndex /\ ~ClosedWithin(call.value, Atol)) =>
        /\ ret.raised # None
        /\ self = call.old

ConstructedFourIndex ==
    /\ call.op = "init"
    /\ call.given # {}
    /\ FirstGiven(call.given) \in FourIndex

\* The indices that UVTW or hkil stand for: uvw or hkl.
ThreeIndexOf(name, q) == IF name = "hkil" THEN _hkil2hkl(q) ELSE _UVTW2uvw(q, None)

\* The Cartesian data read back as hkl or uvw.
ReadBack(name, m) ==
    IF name = "hkil" THEN _xyz2hkl(m.data, m.phase.lattice)
    ELSE _xyz2uvw(m.data, m.phase.lattice)

\* C10: constructing from hkil or UVTW (with a phase) raises ValueError and
\* makes no object when the first three indices of some quartet do not sum to
\* zero within 1e-4; a batch within the tolerance is accepted (the format tag
\* being a valid one) and stored as the Cartesian coordinates of its hkl or uvw.
C10_ConstructClosure ==
    (ConstructedFourIndex /\ call.args.phase # NoPhase) =>
        LET name  == FirstGiven(call.given)
            value == call.args[name]
        IN  /\ ~ClosedWithin(value, Atol) =>
                   (ret.raised = "ValueError" /\ ret.obj = NoObj /\ self = NoObj)
            /\ (ClosedWithin(value, Atol) /\ call.args.coordinate_format \in Formats \cup {None}) =>
                   /\ ret.raised = None
                   /\ self = ret.obj
                   /\ Len(self.data) = Len(value)
                   /\ ReadBack(name, self) = ThreeIndexOf(name, value)

\* An hkil batch accepted although not exactly closed, and stored.
C10_Witness ==
    /\ ConstructedFourIndex
    /\ FirstGiven(call.given) = "hkil"
    /\ ClosedWithin(call.args.hkil, Atol) /\ ~ClosedWithin(call.args.hkil, 0)
    /\ ret.raised = None
    /\ self.data # <<>>


\* ---- C11
\* C11 as stated: both round trips return exactly the triplet they were given
\* (hkl -> hkil -> hkl, and uvw -> UVTW -> uvw under either convention).
C11_Original ==
    call.op \in {"hkl2hkil2hkl", "uvw2UVTW2uvw"} => ret = <<call.value>>

\* x and y differ by at most 8 units in the last place of a number of size m.
FlClose(x, y, m) == Abs(x - y) * Pow2(FloatBits - 3) <= m

\* C11, amended: hkl -> hkil -> hkl is exact; uvw -> UVTW -> uvw is exact for
\* integer triplets under the MTEX convention, and under the default
\* convention returns each index to within floating-point rounding error.
C11_RoundTrip ==
    /\ call.op = "hkl2hkil2hkl" => ret = <<call.value>>
    /\ call.op = "uvw2UVTW2uvw" /\ IsMtex(call.convention) => ret = <<call.value>>
    /\ call.op = "uvw2UVTW2uvw" /\ ~IsMtex(call.convention) =>
        /\ ret[1][3] = call.value[3]
        /\ \A c \in 1..2 :
            FlClose(ret[1][c], call.value[c],
                    Abs(call.value[1]) + Abs(call.value[2]))

\* uvw = [-2, 1, 0] comes back from the default convention as
\* [-2, 1 - 2^-FloatBits * 4, 0]: close to, but not, the input.
C11_Witness ==
    /\ call.op = "uvw2UVTW2uvw"
    /\ ~IsMtex(call.convention)
    /\ call.value = <<-2 * FlOne, FlOne, 0>>
    /\ ret[1][1] = -2 * FlOne
    /\ ret[1][2] < FlOne

\* ---- C12
\* C12 as stated: a construction that passes more than one of xyz, uvw, UVTW,
\* hkl, hkil is rejected with an error.
C12_Original ==
    call.op = "init" /\ Cardinality(call.given) > 1 => ret.raised # None

\* ---- C13
ValidFormat(coordinate_format) == coordinate_format \in Formats \cup {None}

\* C13: without a phase, construction raises ValueError whenever xyz is not
\* given and succeeds (for a valid coordinate_format) when xyz is given; with
\* a phase but none of the five coordinate arguments it raises ValueError.
C13_PhaseRequired ==
    call.op = "init" =>
        /\ call.args.phase = NoPhase /\ call.args.xyz = NoBatch =>
            ret.raised = "ValueError" /\ self = NoObj
        /\ (/\ call.args.phase = NoPhase
            /\ call.args.xyz # NoBatch
            /\ ValidFormat(call.args.coordinate_format)) =>
            /\ ret.raised = None
            /\ self.data = XyzData(call.args.xyz)
            /\ self.phase = NoPhase
        /\ call.args.phase # NoPhase /\ call.given = {} =>
            ret.raised = "ValueError" /\ self = NoObj

\* A Miller built from xyz alone, without a phase.
C13_Witness ==
    /\ call.op = "init"
    /\ call.given = {"xyz"}
    /\ call.args.phase = NoPhase
    /\ ret.raised = None
    /\ self.coordinate_format = "xyz"
    /\ self.data # NoBatch

\* ---- C14
\* The number of positions of the sequence s that hold x.
Count(s, x) == Cardinality({j \in 1..Len(s) : s[j] = x})

\* The distinct orbit members of the non-zero vectors of the batch of self.
NonZeroOrbits ==
    UNION { {Apply(g, self.data[i]) : g \in Range(SelfOps)} :
            i \in {k \in 1..Len(self.data) : ~IsZero(self.data[k])} }

\* C14: symmetrise(unique=True) on an object with a phase returns without an
\* exception, returns no zero vector, and returns every orbit member of every
\* non-zero input vector; a zero input vector contributes nothing.
C14_ZeroDropped ==
    (call.op = "symmetrise" /\ call.unique /\ self.phase # NoPhase) =>
        /\ ret.raised = None
        /\ \A j \in 1..Len(ret.obj.data) : ~IsZero(ret.obj.data[j])
        /\ Range(ret.obj.data) = NonZeroOrbits
        /\ Len(ret.obj.data) =
               SumSeq([k \in 1..Len(self.data) |->
                          IF IsZero(self.data[k]) THEN 0
                          ELSE OrbitSize(self.data[k], SelfOps)])

\* A zero vector beside a vector with an orbit of several members.
C14_Witness ==
    /\ call.op = "symmetrise" /\ call.unique /\ self.phase # NoPhase
    /\ Len(self.data) = 2
    /\ IsZero(self.data[1]) /\ ~IsZero(self.data[2])
    /\ ret.raised = None
    /\ Len(ret.obj.data) > 1

\* ---- C15
\* The (operation, input vector) pairs whose image is w.
PairsGiving(w) ==
    {p \in (1..Len(SelfOps)) \X (1..Len(self.data)) : Apply(SelfOps[p[1]], self.data[p[2]]) = w}

\* C15: symmetrise(unique=False) on N vectors under a point group of order M
\* returns N * M vectors, each vector as many times as there are (operation,
\* input vector) pairs that give it: nothing is removed.
C15_AllPairs ==
    (call.op = "symmetrise" /\ ~call.unique /\ ret.raised = None) =>
        /\ Len(ret.obj.data) = Len(self.data) * Len(SelfOps)
        /\ \A w \in Range(ret.obj.data) :
               Count(ret.obj.data, w) = Cardinality(PairsGiving(w))
        /\ ret.obj.phase = self.phase
        /\ ret.obj.coordinate_format = self.coordinate_format

\* Two inputs whose orbits overlap, and repeat within: duplicates are returned.
C15_Witness ==
    /\ call.op = "symmetrise" /\ ~call.unique /\ ret.raised = None
    /\ Len(self.data) = 2 /\ Len(SelfOps) > 1
    /\ self.data[1] # self.data[2]
    /\ Equivalent(self.data[1], self.data[2], SelfOps)
    /\ Cardinality(Range(ret.obj.data)) < Len(ret.obj.data)

\* ---- C16
\* The vector of other that vector i of self is paired with by broadcasting.
Paired(i) == IF Len(call.other.data) = 1 THEN call.other.data[1] ELSE call.other.data[i]

\* The smallest angle between a and any vector equivalent to b.
SmallestAngle(a, b) ==
    LET orbit == {Apply(g, b) : g \in Range(SelfOps)}
        w     == CHOOSE x \in orbit : \A y \in orbit : ~AngleLess(Angle(a, y), Angle(a, x))
    IN  Angle(a, w)

AngleSymReturned ==
    /\ call.op = "angle_with" /\ call.use_symmetry /\ ret.raised = None
    /\ \A i \in 1..Len(self.data) : ~IsZero(self.data[i])
    /\ Len(call.other.data) \in {1, Len(self.data)}

\* C16 as stated, for non-zero vectors of compatible shapes: with
\* use_symmetry=True the angle returned for vector a_i of self and the vector
\* b_j of other it is paired with is the smallest angle between a_i and any
\* vector equivalent to b_j; it is 0 when b_j = a_i and never larger than the
\* plain angle of the pair.
C16_Original ==
    AngleSymReturned =>
        /\ Len(ret.angles) = Len(self.data)
        /\ \A i \in 1..Len(self.data) :
               /\ ret.angles[i] = SmallestAngle(self.data[i], Paired(i))
               /\ Paired(i) = self.data[i] => ret.angles[i] = Angle(self.data[i], self.data[i])
               /\ ~AngleLess(Angle(self.data[i], Paired(i)), ret.angles[i])

\* ---- C17
\* C17 as stated: for every quartet whose first three indices sum to zero,
\* the third index of the rounded quartet is minus the sum of its first two,
\* and Miller.round on an hkil or UVTW vector raises no exception.
C17_Original ==
    /\ (call.op = "_round_indices" /\ self.coordinate_format \in FourIndex) =>
           \A j \in 1..Len(ret) : ret[j][3] = -(ret[j][1] + ret[j][2])
    /\ (call.op = "round" /\ self.coordinate_format \in FourIndex) =>
           ret.raised = None

\* ---- C18
\* The integer triplet with greatest common divisor 1 that t is a positive
\* multiple of.
Primitive(t) ==
    LET g == Gcd(Gcd(Abs(t[1]), Abs(t[2])), Abs(t[3]))
    IN  [c \in 1..3 |-> t[c] \div g]

MaxAbs(t) == Max({Abs(t[c]) : c \in 1..Len(t)})

RoundedTriplet ==
    call.op = "_round_indices" /\ self.coordinate_format \notin FourIndex

C19_Original ==
    call.op = "get_grid_local" =>
        LET near == {h \in create_equispaced_grid(call.resolution) :
                        ScalarPart(h) > Cos(Deg2Rad(call.grid_width \div 2))}
        IN  /\ ret.raised = None
            /\ ret.grid = IF call.center = NoCenter THEN near
                          ELSE {Compose(call.center, h) : h \in near}
            /\ call.grid_width = 10 => ret.grid # {}

\* ---- C20
\* C20: with a point group given, get_grid_fundamental returns exactly the
\* rotations of the global grid of the resolution that lie in the fundamental
\* region of the point group, and the space group is not read.
C20_FundamentalSubset ==
    (call.op = "get_grid_fundamental" /\ call.point_group # None) =>
        /\ ret.raised = None
        /\ ret.grid \subseteq create_equispaced_grid(call.resolution)
        /\ \A h \in create_equispaced_grid(call.resolution) :
               h \in ret.grid <=> InFundamentalRegion(h, call.point_group)
        /\ ~ret.space_group_read
        /\ ret = get_grid_fundamental(call.resolution, call.point_group, NoSpaceGroup)

\* A two-fold point group, given together with a space group of another
\* point group: a non-empty strict subset of the global grid is returned.
C20_Witness ==
    /\ call.op = "get_grid_fundamental"
    /\ call.point_group = "2" /\ call.space_group = 75
    /\ ret.grid # {}
    /\ ret.grid # create_equispaced_grid(call.resolution)
    /\ ret.grid # get_grid_fundamental(call.resolution, None, call.space_group).grid

\* ---- C21
\* C21: uniform_SO3_sample raises ValueError, without sampling, exactly when a
\* max_angle is given together with old_method; otherwise it returns what the
\* Euler-angle method returns when old_method is set, and what the
\* three-uniform-samples method returns for the same max_angle when it is not.
C21_Dispatch ==
    call.op = "uniform_SO3_sample" =>
        /\ (ret.raised = "ValueError") = (call.max_angle # NoAngle /\ call.old_method)
        /\ ret.raised = "ValueError" => (ret.method = None /\ ret.grid = {})
        /\ (ret.raised = None /\ call.old_method) =>
               /\ ret.method = "_euler_angles_harr_measure"
               /\ ret.grid = _euler_angles_harr_measure(call.resolution)
        /\ (ret.raised = None /\ ~call.old_method) =>
               /\ ret.method = "_three_uniform_samples_method"
               /\ ret.max_angle = call.max_angle
               /\ ret.grid = _three_uniform_samples_method(call.resolution, call.max_angle)

\* The rejected combination.
C21_Witness ==
    /\ call.op = "uniform_SO3_sample"
    /\ call.max_angle = 60 /\ call.old_method
    /\ ret.raised = "ValueError"

\* ---- C22
\* C22 as stated: every rotation uniform_SO3_sample returns for a max_angle
\* has a scalar component of absolute value at least cos(max_angle / 2), less
\* a rounding allowance of 0.01.
C22_Original ==
    (call.op = "uniform_SO3_sample" /\ call.max_angle # NoAngle /\ ret.raised = None) =>
        \A q \in ret.grid :
            Abs(q[1]) >= Cos(RoundHalfEven(call.max_angle * Pi, 360)) - 100

\* ---- C23
\* C23: the vector returned by symmetrise, unique, indexing, unit or mean has
\* the phase and the coordinate_format of the vector it was computed from.
C23_FrameCarried ==
    (/\ call.op \in {"symmetrise", "unique", "getitem", "unit", "mean"}
     /\ ret.raised = None
     /\ ret.obj # NoObj) =>
        /\ ret.obj.phase = self.phase
        /\ ret.obj.coordinate_format = self.coordinate_format

\* The mean of a batch of two hkil vectors of a phase is an hkil vector of
\* that phase.
C23_Witness ==
    /\ call.op = "mean" /\ ~call.use_symmetry
    /\ Len(self.data) = 2
    /\ self.coordinate_format = "hkil"
    /\ self.phase # NoPhase
    /\ ret.obj.coordinate_format = "hkil"
    /\ ret.obj.phase = self.phase
    /\ Len(ret.obj.data) = 1

\* ---- C24
\* C24: assigning hkl, hkil, uvw or UVTW to a Miller vector changes its
\* Cartesian data only: its coordinate_format and its phase reference stay,
\* the phase records are as before, and the other Miller vector is as before,
\* also when both reference the same phase.  An assignment that raises
\* changes nothing.
C24_OnlyData ==
    call.op = "set" /\ "target" \in DOMAIN call =>
        LET old == call.old
            t   == call.target
        IN  /\ self.phases = old.phases
            /\ self.millers[3 - t] = old.millers[3 - t]
            /\ self.millers[t].phase = old.millers[t].phase
            /\ self.millers[t].coordinate_format = old.millers[t].coordinate_format
            /\ ret.raised # None => self = old
            /\ ret.raised = None =>
                   self.millers[t].data =
                       ( CASE call.name = "hkl"  -> _hkl2xyz(call.value, self.phases[old.millers[t].phase].lattice)
                           [] call.name = "hkil" -> _hkl2xyz(_hkil2hkl(call.value), self.phases[old.millers[t].phase].lattice)
                           [] call.name = "uvw"  -> _uvw2xyz(call.value, self.phases[old.millers[t].phase].lattice)
                           [] call.name = "UVTW" -> _uvw2xyz(_UVTW2uvw(call.value, None), self.phases[old.millers[t].phase].lattice) )

\* hkl is assigned to a uvw vector whose phase the other vector references
\* too, and its data changes.
C24_Witness ==
    /\ call.op = "set" /\ "target" \in DOMAIN call
    /\ call.name = "hkl"
    /\ ret.raised = None
    /\ call.old.millers[1].phase = call.old.millers[2].phase
    /\ call.old.millers[call.target].coordinate_format = "uvw"
    /\ self.millers[call.target].data # call.old.millers[call.target].data

\* ---- C25
\* The plane indices of vector j of the Miller object returned.
ReturnedHkl(j) ==
    LET hkl == _xyz2hkl(ret.obj.data, ret.obj.phase.lattice)[j]
    IN  [c \in 1..3 |-> hkl[c] \div One]

\* C25 as stated: every vector from_min_dspacing returns has an interplanar
\* spacing above min_dspacing.
C25_Original ==
    (call.op = "from_min_dspacing" /\ ret.raised = None) =>
        \A j \in 1..Len(ret.obj.data) :
            DGreater(ReturnedHkl(j), call.phase.lattice, call.min_dspacing)

\* ---- C26
BadHighest(h) == (\E c \in 1..3 : h[c] < 0) \/ (\A c \in 1..3 : h[c] = 0)

\* C26: for a negative highest index or all-zero highest indices
\* _get_indices_from_highest and from_highest_indices raise ValueError and
\* return nothing; otherwise _get_indices_from_highest returns each integer
\* triplet within the highest indices except (000) exactly once, the highest
\* indices themselves first.
C26_Indices ==
    /\ call.op = "_get_indices_from_highest" =>
         LET h == call.highest_indices
             box == { <<a, b, c>> : a \in (0 - h[1])..h[1], b \in (0 - h[2])..h[2],
                                    c \in (0 - h[3])..h[3] } \ {ZeroVec}
         IN  IF BadHighest(h) THEN ret.raised = "ValueError" /\ ret.indices = <<>>
             ELSE /\ ret.raised = None
                  /\ Range(ret.indices) = box
                  /\ Len(ret.indices) = Cardinality(box)
                  /\ ret.indices[1] = h
    /\ (/\ call.op = "from_highest_indices"
        /\ (call.uvw # NoIndices \/ call.hkl # NoIndices)
        /\ BadHighest(IF call.uvw # NoIndices THEN call.uvw ELSE call.hkl)) =>
           ret.raised = "ValueError" /\ ret.obj = NoObj /\ ret.indices = <<>>

\* The 14 triplets within (1, 0, 2), (1, 0, 2) first and (-1, 0, -2) last.
C26_Witness ==
    /\ call.op = "_get_indices_from_highest"
    /\ call.highest_indices = <<1, 0, 2>>
    /\ Len(ret.indices) = 14
    /\ ret.indices[1] = <<1, 0, 2>>
    /\ ret.indices[14] = <<0 - 1, 0, 0 - 2>>

\* ---- C30
\* The largest n in 0..MaxCount whose plane along axis i has a spacing above
\* min_dspacing.
LargestAbove(lattice, min_dspacing, i) ==
    Max({n \in 0..MaxCount : DGreater(AlongAxis(i, n), lattice, min_dspacing)})

\* C30 as stated: the search of _get_highest_hkl ends for every lattice and
\* every min_dspacing, and returns for each axis the largest n >= 0 whose
\* plane has a spacing above min_dspacing.
C30_Original ==
    <>(/\ self.pc = "done"
       /\ ret.indices = << [i \in 1..3 |-> LargestAbove(call.lattice, call.min_dspacing, i)] >>)

\* ---- C27
\* C27: for a file taken for EDAX TSL, the phase_id of a point is -1 if its
\* confidence index (seventh column) is -1 and the value of the file's
\* phase_id column (the eighth) otherwise; for any other vendor every
\* phase_id is the value of the file.
C27_NotIndexed ==
    call.op = "load_ang" =>
        /\ Len(ret.phase_id) = Len(call.file_data)
        /\ \A p \in 1..Len(call.file_data) :
               ret.phase_id[p] =
                   IF ret.vendor = "tsl" /\ call.file_data[p][7] = 0 - 1 THEN 0 - 1
                   ELSE call.file_data[p][8]
        /\ ret.vendor = "tsl" <=> (call.header = {} /\ Len(call.file_data[1]) = 14)

\* A TSL file of two points of phase 1, the first with confidence index -1.
C27_Witness ==
    /\ call.op = "load_ang"
    /\ ret.vendor = "tsl"
    /\ Len(call.file_data) = 2
    /\ call.file_data[1][7] = 0 - 1 /\ call.file_data[1][8] = 1
    /\ call.file_data[2][7] = 1 /\ call.file_data[2][8] = 1
    /\ ret.phase_id = <<0 - 1, 1>>

\* ---- C28
\* C28 as stated: a PhaseList built from lists has as many phases as the
\* longest of names, symmetries and phase_ids, also for a short phase_ids list
\* and for repeated phase ids.
C28_Original ==
    (call.op = "init" /\ ret.raised = None) =>
        Len(self.dict) =
            Max({LenOrZero(call.names), LenOrZero(call.symmetries), LenOrZero(call.phase_ids)})

\* ---- C29
\* The phase ids are pairwise distinct and iterate in ascending order.
Ascending(d) == \A j, k \in 1..Len(d) : j < k => d[j].id < d[k].id

\* The list is the old one with one phase of name key and id
\* max(old ids) + 1 (0 for an empty list) added.
OneAdded(old, new, key) ==
    /\ Len(new) = Len(old) + 1
    /\ SubSeq(new, 1, Len(old)) = old
    /\ new[Len(new)].phase.name = key
    /\ new[Len(new)].id = IF old = <<>> THEN 0 ELSE Max(Range(PhaseIds(old))) + 1

\* C29 as stated: the ids always ascend, an assignment under a new name adds
\* one phase with the next id, and one under a name of the list raises
\* ValueError and changes nothing.
C29_Original ==
    /\ (call.op \in {"init", "setitem"}) => Ascending(self.dict)
    /\ call.op = "setitem" =>
           IF call.key \in Range(Names(call.old.dict))
           THEN ret.raised = "ValueError" /\ self = call.old
           ELSE ret.raised = None /\ OneAdded(call.old.dict, self.dict, call.key)

\* C29: the ids always ascend; an assignment under a new name with a valid
\* symmetry (a point group, its name, or None) adds one phase with the next
\* id and leaves the others; any other assignment raises ValueError and
\* changes nothing.
C29_SetItem ==
    /\ (call.op \in {"init", "setitem"}) => Ascending(self.dict)
    /\ call.op = "setitem" =>
           IF call.key \in Range(Names(call.old.dict))
              \/ PhaseSymmetry(call.value) = "ValueError"
           THEN ret.raised = "ValueError" /\ self = call.old
           ELSE ret.raised = None /\ OneAdded(call.old.dict, self.dict, call.key)

\* Phase "c" is added to a list with the ids 0 and 3, under id 4.
C29_Witness ==
    /\ call.op = "setitem"
    /\ call.key = "c"
    /\ ret.raised = None
    /\ PhaseIds(call.old.dict) = <<0, 3>>
    /\ PhaseIds(self.dict) = <<0, 3, 4>>

=============================================================================
